---------------------------- MODULE Spec2Model ----------------------------
(***************************************************************************)
(* A model of the ditherWalls image pipeline:                              *)
(*   - the image-processor worker (src/unnamed/part_000),                  *)
(*   - the useImageProcessor hook (src/lib/hooks/use-image-processor.ts),  *)
(*   - the file intake of CanvasStage (src/components/canvas-stage.tsx),   *)
(*   - the quantizer and the dithering strategies                          *)
(*     (src/unnamed/part_001, part_002, src/lib/algorithms/dithering).     *)
(*                                                                         *)
(* An optional value (T | null | undefined) is a sequence of length 0 or 1 *)
(* (None, Some(x)).                                                        *)
(***************************************************************************)
EXTENDS Integers, Sequences, FiniteSets, TLC

None == <<>>

Some(x) == <<x>>

IsSome(o) == Len(o) = 1

Val(o) == o[1]

Max(a, b) == IF a >= b THEN a ELSE b

Min(a, b) == IF a <= b THEN a ELSE b

(***************************************************************************)
(* Bounds of the model.                                                    *)
(***************************************************************************)
\* ids one hook instance (or one client of the worker) may issue
MaxId == 3

\* times the hook's worker effect may run (mount, re-mount)
MaxMounts == 1

\* handleFiles calls that reach the decode stage
MaxOps == 2

\* messages the client of the bare protocol posts
MaxPosts == 2

(***************************************************************************)
(* ProcessingSettings, DEFAULT_SETTINGS (creative profile).                *)
(* ditheringIntensity is held in units of 1/IntensityDen.                  *)
(***************************************************************************)
IntensityDen == 4

DEFAULT_SETTINGS ==
  [algorithm |-> "floyd-steinberg", colorDepth |-> 8, ditheringIntensity |-> 3,
   brightness |-> 0, contrast |-> 0, resolutionPreset |-> "original",
   aspectLock |-> TRUE, palette |-> None]

\* the settings values the store hands to the hook in this model
SettingsValues ==
  { DEFAULT_SETTINGS,
    [DEFAULT_SETTINGS EXCEPT !.algorithm = "none", !.colorDepth = 2,
                             !.brightness = 20],
    [DEFAULT_SETTINGS EXCEPT !.algorithm = "ordered-bayer-8x8", !.colorDepth = 4,
                             !.ditheringIntensity = 2, !.contrast = -1,
                             !.brightness = 10] }

(***************************************************************************)
(* Pixel surfaces: width, height and the flat RGBA byte sequence of        *)
(* ImageData.data.  The canvases the presentation layer hands over.        *)
(***************************************************************************)
SourceImages ==
  { [width |-> 1, height |-> 1, data |-> <<128, 128, 128, 255>>],
    [width |-> 2, height |-> 1, data |-> <<200, 100, 30, 255, 10, 250, 128, 255>>] }

(***************************************************************************)
(* Tone adjustment (worker).                                               *)
(*                                                                         *)
(* contrastFactor = Math.tan(((contrast + 1) * Math.PI) / 4).  In IEEE     *)
(* doubles the factor is 0 for contrast -1, 0.9999999999999999 for         *)
(* contrast 0 and 1.633123935319537e16 for contrast 1; tan is irrational   *)
(* at every other rational contrast, so the model holds these three.       *)
(* The sample is stored into a Uint8ClampedArray, which rounds to the      *)
(* nearest integer, halves to even.  The model computes in multiples of    *)
(* 1/FactorDen: the factor just below 1 is held as 1 - 1/FactorDen, which  *)
(* like the double keeps factor * d within one half of d for |d| <= 128,   *)
(* and the factor 1.6e16 as 1000, which like the double takes every sample *)
(* that differs from 128 out of [0,255] for every brightness of the model. *)
(***************************************************************************)
FactorDen == 1024

\* clamp(value) for value = num / FactorDen
clamp(num) == Max(0, Min(255 * FactorDen, num))

\* contrastFactor * d as a numerator over FactorDen
ContrastTerm(contrast, d) ==
  CASE contrast = -1 -> 0
    [] contrast = 0  -> d * (FactorDen - 1)
    [] contrast = 1  -> d * 1000 * FactorDen

\* the store of num / FactorDen (within [0,255]) into the Uint8ClampedArray
StoreClamped(num) ==
  LET q == num \div FactorDen
      r == num % FactorDen
  IN  IF 2 * r > FactorDen \/ (2 * r = FactorDen /\ q % 2 = 1) THEN q + 1 ELSE q

\* the assignment of a sample with the fraction cut off instead of rounded
AdjustSampleTruncating(v, settings) ==
  clamp(ContrastTerm(settings.contrast, v - 128)
          + ((128 + settings.brightness) * FactorDen)) \div FactorDen

\* data[index] = clamp(contrastFactor * (data[index] - 128) + 128 + brightnessOffset)
AdjustSample(v, settings) ==
  StoreClamped(clamp(ContrastTerm(settings.contrast, v - 128)
                       + ((128 + settings.brightness) * FactorDen)))

\* the loop of applyAdjustmentsToImageData: R, G, B of every pixel, alpha kept
AdjustData(data, settings) ==
  [i \in 1..Len(data) |-> IF i % 4 = 0 THEN data[i] ELSE AdjustSample(data[i], settings)]

\* applyAdjustmentsToImageData without the early return and without centring the
\* sample on 128
applyAdjustmentsToImageDataUncentred(data, settings) ==
  [i \in 1..Len(data) |->
     IF i % 4 = 0 THEN data[i]
     ELSE StoreClamped(clamp(ContrastTerm(settings.contrast, data[i])
                               + ((128 + settings.brightness) * FactorDen)))]

applyAdjustmentsToImageData(data, settings) ==
  IF settings.brightness = 0 /\ settings.contrast = 0
  THEN data
  ELSE AdjustData(data, settings)

\* applyAdjustments(ctx, settings, width, height) on the canvas pixels;
\* settings is optional here (ProcessingSettings | null)
applyAdjustments(data, settingsOpt) ==
  IF ~IsSome(settingsOpt) THEN data
  ELSE IF Val(settingsOpt).brightness = 0 /\ Val(settingsOpt).contrast = 0 THEN data
  ELSE applyAdjustmentsToImageData(data, Val(settingsOpt))

(***************************************************************************)
(* The quantizer (src/unnamed/part_002).                                   *)
(*                                                                         *)
(* Inside the dithering strategies a sample is a fraction: the model holds *)
(* it as a numerator over FP.  The Bayer offsets of the model (multiples   *)
(* of 1/512) and the Floyd-Steinberg accumulators of its one-row images    *)
(* (multiples of 1/64) are whole numerators, and they fit the 24-bit       *)
(* significand of the Float32Array, so the arithmetic below is exact.      *)
(***************************************************************************)
FP == 512

DEFAULT_LEVELS == 2

MIN_LEVELS == 2

MAX_LEVELS == 256

\* Math.round(num / den) for den > 0: the nearest integer, halves upwards
MathRound(num, den) == (2 * num + den) \div (2 * den)

\* clampToByte(value) for value = num / den
clampToByte(num, den) ==
  IF num <= 0 THEN 0
  ELSE IF num >= 255 * den THEN 255
  ELSE MathRound(num, den)

\* createQuantizer(options): the closure's captured values. step = 255 / divisor;
\* options.palette, options.levels and options.mode are optional
createQuantizer(options) ==
  LET palette == IF IsSome(options.palette) THEN Val(options.palette) ELSE <<>>
      levels == IF IsSome(options.levels) THEN Val(options.levels) ELSE DEFAULT_LEVELS
      mode == IF IsSome(options.mode) THEN Val(options.mode) ELSE "grayscale"
      boundedLevels == Max(MIN_LEVELS, Min(MAX_LEVELS, levels))
      divisor == boundedLevels - 1
  IN  [normalisedPalette |->
         [i \in DOMAIN palette |->
            <<clampToByte(palette[i][1], 1), clampToByte(palette[i][2], 1),
              clampToByte(palette[i][3], 1)>>],
       divisor |-> IF divisor <= 0 THEN 1 ELSE divisor,
       mode |-> mode]

\* |a - b|
AbsDiff(a, b) == IF a >= b THEN a - b ELSE b - a

\* dr * dr + dg * dg + db * db for the numerators r, g, b and a palette colour,
\* as <<high, low>> with distance * FP * FP = high * FP * FP + low and
\* low < FP * FP, so that no product leaves 32 bits
SquaredDistance(r, g, b, candidate) ==
  LET d == <<AbsDiff(r, candidate[1] * FP), AbsDiff(g, candidate[2] * FP),
             AbsDiff(b, candidate[3] * FP)>>
      whole(c) == d[c] \div FP
      frac(c) == d[c] % FP
      squares == whole(1) * whole(1) + whole(2) * whole(2) + whole(3) * whole(3)
      cross == 2 * (whole(1) * frac(1) + whole(2) * frac(2) + whole(3) * frac(3))
      rest == cross * FP + frac(1) * frac(1) + frac(2) * frac(2) + frac(3) * frac(3)
  IN  <<squares + (rest \div (FP * FP)), rest % (FP * FP)>>

\* distance <= closestDistance: a later candidate at the same distance wins
CloserThanOrEqual(distance, closestDistance) ==
  \/ distance[1] < closestDistance[1]
  \/ distance[1] = closestDistance[1] /\ distance[2] <= closestDistance[2]

\* distance < closestDistance
CloserThan(distance, closestDistance) ==
  \/ distance[1] < closestDistance[1]
  \/ distance[1] = closestDistance[1] /\ distance[2] < closestDistance[2]

\* the loop of lines 43-53 from candidate i on; closestDistance is None for
\* Number.POSITIVE_INFINITY; r, g, b are numerators over FP
RECURSIVE NearestCandidate(_, _, _, _, _, _, _)
NearestCandidate(palette, i, r, g, b, nearest, closestDistance) ==
  IF i > Len(palette) THEN nearest
  ELSE LET candidate == palette[i]
           distance == SquaredDistance(r, g, b, candidate)
       IN  IF ~IsSome(closestDistance) \/ CloserThan(distance, Val(closestDistance))
           THEN NearestCandidate(palette, i + 1, r, g, b, candidate, Some(distance))
           ELSE NearestCandidate(palette, i + 1, r, g, b, nearest, closestDistance)

\* Math.round(value / step) * step for value = v / FP, rounded to an integer
\* without clampToByte
QuantizeLevelUnclamped(v, divisor) ==
  MathRound(MathRound(v * divisor, 255 * FP) * 255, divisor)

\* clampToByte(Math.round(value / step) * step) for value = v / FP
QuantizeLevel(v, divisor) ==
  clampToByte(MathRound(v * divisor, 255 * FP) * 255, divisor)

\* Math.round(luminance / step) for luminance = 0.2126 r + 0.7152 g + 0.0722 b,
\* with the products kept inside 32 bits: the weighted sum is whole + frac / FP
\* in units of 1/10000
LuminanceLevel(r, g, b, divisor) ==
  LET high == 2126 * (r \div FP) + 7152 * (g \div FP) + 722 * (b \div FP)
      low == 2126 * (r % FP) + 7152 * (g % FP) + 722 * (b % FP)
      whole == high + (low \div FP)
      frac == low % FP
  IN  ((2 * whole * divisor + 2550000) + (2 * frac * divisor) \div FP) \div 5100000

\* the QuantizeFn createQuantizer returns, applied to (r, g, b) over FP
Quantize(q, r, g, b) ==
  IF Len(q.normalisedPalette) > 0
  THEN NearestCandidate(q.normalisedPalette, 1, r, g, b, q.normalisedPalette[1], None)
  ELSE IF q.mode = "per-channel"
  THEN <<QuantizeLevel(r, q.divisor), QuantizeLevel(g, q.divisor),
         QuantizeLevel(b, q.divisor)>>
  ELSE LET quantized == clampToByte(LuminanceLevel(r, g, b, q.divisor) * 255, q.divisor)
       IN  <<quantized, quantized, quantized>>

\* index (0-based) of the pixel that holds position i (1-based) of the data
PixelOf(i) == (i - 1) \div 4

\* channel 1..4 of position i
ChannelOf(i) == ((i - 1) % 4) + 1

quantizeImageData(imageData, q) ==
  LET data == imageData.data
      pixel(p) == Quantize(q, data[4 * p + 1] * FP, data[4 * p + 2] * FP,
                           data[4 * p + 3] * FP)
  IN  [imageData EXCEPT
         !.data = [i \in DOMAIN data |->
                     IF ChannelOf(i) = 4 THEN data[i]
                     ELSE pixel(PixelOf(i))[ChannelOf(i)]]]

(***************************************************************************)
(* The dithering strategies (src/unnamed/part_001, ordered-bayer-8x8 in    *)
(* src/lib/hooks/use-image-processor.ts, src/lib/algorithms/dithering).    *)
(***************************************************************************)
\* weights in sixteenths
diffusionMatrix ==
  << [x |-> 1, y |-> 0, weight |-> 7], [x |-> -1, y |-> 1, weight |-> 3],
     [x |-> 0, y |-> 1, weight |-> 5], [x |-> 1, y |-> 1, weight |-> 1] >>

\* value is a numerator over FP
clampFloatToByteRange(value) ==
  IF value <= 0 THEN 0 ELSE IF value >= 255 * FP THEN 255 * FP ELSE value

\* the intensity clamped to 0.25 .. 1: never zero
ScaledIntensityAtLeastQuarter(intensity) == Max(1, Min(IntensityDen, intensity))

\* Math.max(0, Math.min(1, options.intensity)), in units of 1/IntensityDen
ScaledIntensity(intensity) == Max(0, Min(IntensityDen, intensity))

\* the loop over diffusionMatrix without the test of targetX (line 59): a target
\* beyond the end of a row is the pixel the index falls on
RECURSIVE DiffuseAcrossRows(_, _, _, _, _, _, _)
DiffuseAcrossRows(diffusedPixels, k, x, y, width, height, error) ==
  IF k > Len(diffusionMatrix) THEN diffusedPixels
  ELSE LET targetX == x + diffusionMatrix[k].x
           targetY == y + diffusionMatrix[k].y
           targetIndex == (targetY * width + targetX) * 4
           weight == diffusionMatrix[k].weight
       IN  IF targetY < 0 \/ targetY >= height
           THEN DiffuseAcrossRows(diffusedPixels, k + 1, x, y, width, height, error)
           ELSE DiffuseAcrossRows(
                  [i \in DOMAIN diffusedPixels |->
                     IF i \in (targetIndex + 1)..(targetIndex + 3)
                     THEN clampFloatToByteRange(
                            diffusedPixels[i]
                            + (error[i - targetIndex] * weight) \div (16 * IntensityDen))
                     ELSE diffusedPixels[i]],
                  k + 1, x, y, width, height, error)

\* the loop over diffusionMatrix (lines 55-68) from entry k on; error holds
\* (original - quantized) * scaledIntensity as numerators over FP * IntensityDen
RECURSIVE Diffuse(_, _, _, _, _, _, _)
Diffuse(diffusedPixels, k, x, y, width, height, error) ==
  IF k > Len(diffusionMatrix) THEN diffusedPixels
  ELSE LET targetX == x + diffusionMatrix[k].x
           targetY == y + diffusionMatrix[k].y
           targetIndex == (targetY * width + targetX) * 4
           weight == diffusionMatrix[k].weight
       IN  IF targetX < 0 \/ targetX >= width \/ targetY < 0 \/ targetY >= height
           THEN Diffuse(diffusedPixels, k + 1, x, y, width, height, error)
           ELSE Diffuse(
                  [i \in DOMAIN diffusedPixels |->
                     IF i \in (targetIndex + 1)..(targetIndex + 3)
                     THEN clampFloatToByteRange(
                            diffusedPixels[i]
                            + (error[i - targetIndex] * weight) \div (16 * IntensityDen))
                     ELSE diffusedPixels[i]],
                  k + 1, x, y, width, height, error)

\* one pass of the body of the raster scan (lines 31-68), for pixel p
FloydSteinbergPixel(p, width, height, data, diffusedPixels, scaledIntensity, q) ==
  LET x == p % width
      y == p \div width
      index == p * 4
      original == <<diffusedPixels[index + 1], diffusedPixels[index + 2],
                    diffusedPixels[index + 3]>>
      quantized == Quantize(q, original[1], original[2], original[3])
      written == [i \in DOMAIN data |->
                    IF i \in (index + 1)..(index + 3)
                    THEN quantized[i - index] ELSE data[i]]
      settled == [i \in DOMAIN diffusedPixels |->
                    IF i \in (index + 1)..(index + 3)
                    THEN quantized[i - index] * FP ELSE diffusedPixels[i]]
      error == [c \in 1..3 |-> (original[c] - quantized[c] * FP) * scaledIntensity]
  IN  [data |-> written,
       diffusedPixels |-> IF scaledIntensity = 0 THEN settled
                          ELSE Diffuse(settled, 1, x, y, width, height, error)]

\* the raster scan of floydSteinbergDither.apply (lines 29-70) from pixel p on
RECURSIVE FloydSteinbergScan(_, _, _, _, _, _, _)
FloydSteinbergScan(p, width, height, data, diffusedPixels, scaledIntensity, q) ==
  IF p >= width * height THEN data
  ELSE LET pass == FloydSteinbergPixel(p, width, height, data, diffusedPixels,
                                       scaledIntensity, q)
       IN  FloydSteinbergScan(p + 1, width, height, pass.data, pass.diffusedPixels,
                              scaledIntensity, q)

floydSteinbergDither(imageData, options) ==
  [imageData EXCEPT
     !.data = FloydSteinbergScan(0, imageData.width, imageData.height, imageData.data,
                                 [i \in DOMAIN imageData.data |-> imageData.data[i] * FP],
                                 ScaledIntensity(options.intensity), options.quantize)]

BAYER_8X8 ==
  << 0, 48, 12, 60, 3, 51, 15, 63,
     32, 16, 44, 28, 35, 19, 47, 31,
     8, 56, 4, 52, 11, 59, 7, 55,
     40, 24, 36, 20, 43, 27, 39, 23,
     2, 50, 14, 62, 1, 49, 13, 61,
     34, 18, 46, 30, 33, 17, 45, 29,
     10, 58, 6, 54, 9, 57, 5, 53,
     42, 26, 38, 22, 41, 25, 37, 21 >>

MATRIX_SIZE == 8

MATRIX_AREA == MATRIX_SIZE * MATRIX_SIZE

\* threshold * diffusionScale for pixel (x, y), a numerator over FP:
\* ((cell + 0.5) / MATRIX_AREA - 0.5) * scaledIntensity * 255
BayerOffset(x, y, scaledIntensity) ==
  LET rowBase == (y % MATRIX_SIZE) * MATRIX_SIZE
      cell == BAYER_8X8[(rowBase + (x % MATRIX_SIZE)) + 1]
  IN  ((2 * cell + 1 - MATRIX_AREA) * scaledIntensity * 255 * FP)
        \div (2 * MATRIX_AREA * IntensityDen)

\* orderedBayer8x8Dither taking the matrix cell from the pixel's index in the buffer
orderedBayer8x8DitherByIndex(imageData, options) ==
  LET data == imageData.data
      scaledIntensity == ScaledIntensity(options.intensity)
      adjusted(p, c) ==
        clampFloatToByteRange(data[4 * p + c] * FP
                              + BayerOffset(p, p \div MATRIX_SIZE, scaledIntensity))
      pixel(p) == Quantize(options.quantize, adjusted(p, 1), adjusted(p, 2), adjusted(p, 3))
  IN  [imageData EXCEPT
         !.data = [i \in DOMAIN data |->
                     IF ChannelOf(i) = 4 THEN data[i]
                     ELSE pixel(PixelOf(i))[ChannelOf(i)]]]

orderedBayer8x8Dither(imageData, options) ==
  LET data == imageData.data
      width == imageData.width
      scaledIntensity == ScaledIntensity(options.intensity)
      adjusted(p, c) ==
        clampFloatToByteRange(data[4 * p + c] * FP
                              + BayerOffset(p % width, p \div width, scaledIntensity))
      pixel(p) == Quantize(options.quantize, adjusted(p, 1), adjusted(p, 2), adjusted(p, 3))
  IN  [imageData EXCEPT
         !.data = [i \in DOMAIN data |->
                     IF ChannelOf(i) = 4 THEN data[i]
                     ELSE pixel(PixelOf(i))[ChannelOf(i)]]]

STRATEGIES == {"floyd-steinberg", "ordered-bayer-8x8"}

\* STRATEGIES is an object literal: a key it does not hold itself is looked up
\* in Object.prototype.  Some of the keys found there
ObjectPrototypeKeys == {"constructor", "toString", "valueOf", "hasOwnProperty", "__proto__"}

\* lines 38-52 for a key of Object.prototype: the value found is truthy, so line
\* 40 does not return, and line 52 calls its `apply`.  For a function that is
\* Function.prototype.apply, which calls the function with imageData as `this`
\* and no arguments (options has no length); Object.prototype itself has no
\* `apply`
InheritedStrategyApply(key, imageData) ==
  CASE key = "valueOf" -> imageData
    [] key = "constructor" -> [returned |-> "{}"]
    [] key = "toString" -> [returned |-> "[object ImageData]"]
    [] key = "hasOwnProperty" -> [returned |-> "false"]
    [] key = "__proto__" -> [threw |-> "TypeError: strategy.apply is not a function"]

\* applyDithering(imageData, config); config.palette and config.mode are optional
applyDithering(imageData, config) ==
  LET quantize == createQuantizer([palette |-> config.palette,
                                   levels |-> Some(config.levels),
                                   mode |-> config.mode])
      options == [intensity |-> config.intensity, quantize |-> quantize,
                  palette |-> config.palette, levels |-> config.levels]
  IN  IF config.algorithm = "none" THEN quantizeImageData(imageData, quantize)
      ELSE IF config.algorithm \in ObjectPrototypeKeys
      THEN InheritedStrategyApply(config.algorithm, imageData)
      ELSE IF config.algorithm \notin STRATEGIES
      THEN quantizeImageData(imageData, quantize)
      ELSE IF config.algorithm = "floyd-steinberg"
      THEN floydSteinbergDither(imageData, options)
      ELSE orderedBayer8x8Dither(imageData, options)

(***************************************************************************)
(* State.                                                                  *)
(***************************************************************************)
VARIABLES
  \* ---- worker (src/unnamed/part_000) ----
  supportsOffscreen,   \* typeof OffscreenCanvas !== "undefined" in the worker
  processingCanvas,    \* the reusable OffscreenCanvas: None or Some([width, height, data])
  processingContext,   \* TRUE when processingCanvas has a 2d context
  currentSettings,     \* the stored default: None or Some(settings)
  inbox,               \* messages posted to the worker, not yet handled
  awaiting,            \* PROCESS handlers suspended at await createImageBitmap
  outbox,              \* messages the worker posted, not yet handled by the receiver
  workerRefs,          \* buffers and bitmaps the worker holds a usable reference to
  \* ---- hook (src/lib/hooks/use-image-processor.ts) ----
  idRef,               \* idRef.current
  workerRef,           \* workerRef.current: None or Some(epoch of the worker)
  ready,               \* the ready state
  storeSupportsOffscreen, \* useProcessingStore supportsOffscreen: None or Some(bool)
  capturing,           \* processImage calls suspended at await createImageBitmap
  hookRefs,            \* buffers and bitmaps the caller side holds a usable reference to
  mounts,              \* how many times the worker effect has run
  \* ---- a client of the worker that speaks the bare protocol ----
  clientId,
  \* ---- observations ----
  nextBuf,             \* allocator of buffer / bitmap identities
  handled,             \* one record per PROCESS message the worker has handled
  respCount,           \* id -> number of PROCESS_COMPLETE / ERROR responses posted
  lastProcessId,       \* id of the PROCESS message the hook posted last (0: none)
  delivered,           \* calls of onResult: [id, latest] (latest: lastProcessId then)
  errors,              \* calls of onError
  \* ---- CanvasStage file intake (src/components/canvas-stage.tsx) ----
  operationIdRef,      \* operationIdRef.current
  isProcessing,
  status,              \* StageStatus: [type, message]
  imageState,          \* None or Some(image state)
  decoding,            \* handleFiles calls suspended at await decodeFileToCanvas
  lastCall,            \* the handleFiles call made last and what it did
  lastSettled,         \* the decode that settled last: None or Some([operationId, stale])
  \* ---- one run of decodeFileToCanvas, one run of the pixel pipeline ----
  decodeJob,           \* the file being decoded and how far decodeFileToCanvas has come
  ditherJob,           \* the surface being processed and how far the pipeline has come
  probeJob,            \* one call of a pure function of the pipeline and its result
  scanJob,             \* one Floyd-Steinberg run, pixel by pixel
  \* ---- observation of processImage ----
  overtakenPosts,      \* ids posted by a call after a call invoked later had posted
  nullReturns          \* processImage calls that returned null, modulo 2

workerVars == <<supportsOffscreen, processingCanvas, processingContext, currentSettings,
                inbox, awaiting, outbox, workerRefs>>

hookVars == <<idRef, workerRef, ready, storeSupportsOffscreen, capturing, hookRefs, mounts>>

obsVars == <<nextBuf, handled, respCount, lastProcessId, delivered, errors>>

stageVars == <<operationIdRef, isProcessing, status, imageState, decoding, lastCall,
               lastSettled>>

jobVars == <<decodeJob, ditherJob, probeJob, scanJob, overtakenPosts, nullReturns>>

vars == <<workerVars, hookVars, clientId, obsVars, stageVars, jobVars>>

Ids == 1..Max(MaxId, MaxPosts)

(***************************************************************************)
(* Protocol messages (WorkerIncomingMessage, WorkerOutgoingMessage).       *)
(* A bitmap or an ImageData is [buf, width, height, data]: buf is the      *)
(* identity of the transferable (the ImageBitmap, or data.buffer).         *)
(***************************************************************************)
InitMessage(id) == [type |-> "INIT", id |-> id]

UpdateSettingsMessage(id, settings) ==
  [type |-> "UPDATE_SETTINGS", id |-> id, payload |-> [settings |-> settings]]

ProcessMessage(id, payload) == [type |-> "PROCESS", id |-> id, payload |-> payload]

ReadyMessage(id, flag) ==
  [type |-> "READY", id |-> id, payload |-> [supportsOffscreen |-> flag]]

SettingsAckMessage(id) == [type |-> "SETTINGS_ACK", id |-> id]

ProcessCompleteMessage(id, payload) ==
  [type |-> "PROCESS_COMPLETE", id |-> id, payload |-> payload]

ErrorMessage(id, error) == [type |-> "ERROR", id |-> id, error |-> error]

Surface(buf, image) ==
  [buf |-> buf, width |-> image.width, height |-> image.height, data |-> image.data]

\* the transferables a PROCESS or PROCESS_COMPLETE payload refers to
PayloadBufs(payload) ==
  (IF IsSome(payload.bitmap) THEN {Val(payload.bitmap).buf} ELSE {})
  \cup (IF IsSome(payload.imageData) THEN {Val(payload.imageData).buf} ELSE {})

MessageBufs(m) ==
  IF m.type \in {"PROCESS", "PROCESS_COMPLETE"} THEN PayloadBufs(m.payload) ELSE {}

NO_IMAGE_DATA == "No image data available for processing."

NO_OFFSCREEN == "OffscreenCanvas is not supported in this environment."

CANNOT_CONVERT == "Unable to convert bitmap to ImageData."

CANNOT_PREPARE == "Unable to prepare offscreen canvas."

BITMAP_FAILED == "createImageBitmap rejected"

(***************************************************************************)
(* The worker: module state and the message handler.                       *)
(***************************************************************************)
Blank(width, height) == [i \in 1..(4 * width * height) |-> 0]

\* lines 10-14: the module-level state of a freshly started worker
WorkerStart(offscreen, context) ==
  /\ supportsOffscreen = offscreen
  /\ processingCanvas = IF offscreen THEN Some([width |-> 1, height |-> 1, data |-> Blank(1, 1)])
                        ELSE None
  /\ processingContext = (offscreen /\ context)
  /\ currentSettings = None
  /\ inbox = <<>>
  /\ awaiting = {}
  /\ outbox = <<>>
  /\ workerRefs = {}

\* postMessageFromWorker: the transfer list it builds
WorkerTransferables(message) ==
  IF message.type = "PROCESS_COMPLETE"
  THEN IF IsSome(message.payload.bitmap) THEN {Val(message.payload.bitmap).buf}
       ELSE IF IsSome(message.payload.imageData) THEN {Val(message.payload.imageData).buf}
       ELSE {}
  ELSE {}

IsResponse(m) == m.type \in {"PROCESS_COMPLETE", "ERROR"}

\* PostFromWorker with the catch block of the PROCESS case swallowing the error
PostFromWorkerSilentCatch(message, held) ==
  /\ outbox' = IF message.type = "ERROR" THEN outbox ELSE Append(outbox, message)
  /\ workerRefs' = held
  /\ respCount' = respCount

\* postMessageFromWorker(message), the worker holding `held` before the call:
\* what is on the transfer list is detached from the worker, the rest stays usable
PostFromWorker(message, held) ==
  /\ outbox' = Append(outbox, message)
  /\ workerRefs' = held \ WorkerTransferables(message)
  /\ respCount' = IF IsResponse(message)
                  THEN [respCount EXCEPT ![message.id] = @ + 1]
                  ELSE respCount

\* case "INIT"
WorkerHandleInit ==
  /\ inbox # <<>>
  /\ Head(inbox).type = "INIT"
  /\ inbox' = Tail(inbox)
  /\ PostFromWorker(ReadyMessage(Head(inbox).id, supportsOffscreen), workerRefs)
  /\ UNCHANGED <<supportsOffscreen, processingCanvas, processingContext, currentSettings,
                 awaiting>>
  /\ UNCHANGED <<hookVars, clientId, stageVars, jobVars>>
  /\ UNCHANGED <<nextBuf, handled, lastProcessId, delivered, errors>>

\* case "UPDATE_SETTINGS" acknowledging without the assignment of line 29
WorkerHandleUpdateSettingsAckOnly ==
  /\ inbox # <<>>
  /\ Head(inbox).type = "UPDATE_SETTINGS"
  /\ inbox' = Tail(inbox)
  /\ PostFromWorker(SettingsAckMessage(Head(inbox).id), workerRefs)
  /\ UNCHANGED <<supportsOffscreen, processingCanvas, processingContext, currentSettings,
                 awaiting>>
  /\ UNCHANGED <<hookVars, clientId, stageVars, jobVars>>
  /\ UNCHANGED <<nextBuf, handled, lastProcessId, delivered, errors>>

\* case "UPDATE_SETTINGS"
WorkerHandleUpdateSettings ==
  /\ inbox # <<>>
  /\ Head(inbox).type = "UPDATE_SETTINGS"
  /\ inbox' = Tail(inbox)
  /\ currentSettings' = Some(Head(inbox).payload.settings)
  /\ PostFromWorker(SettingsAckMessage(Head(inbox).id), workerRefs)
  /\ UNCHANGED <<supportsOffscreen, processingCanvas, processingContext, awaiting>>
  /\ UNCHANGED <<hookVars, clientId, stageVars, jobVars>>
  /\ UNCHANGED <<nextBuf, handled, lastProcessId, delivered, errors>>

\* StoredAtProcess without the assignment of line 35: the stored default stays
StoredAtProcessKept(stored, payloadSettings) == stored

\* line 35: currentSettings = message.payload.settings
StoredAtProcess(stored, payloadSettings) == Some(payloadSettings)

\* currentSettings ?? settings (lines 75 and 108)
EffectiveSettings(stored, settings) == IF IsSome(stored) THEN Val(stored) ELSE settings

\* ctx.drawImage(bitmap, 0, 0, width, height) onto the cleared canvas; the
\* bitmaps of the model have the payload's width and height and opaque pixels
DrawImage(bitmap, width, height) == bitmap.data

\* convertBitmapToImageData without the check of the canvas
convertBitmapToImageDataUnchecked(bitmap, offscreen, ctxOk) ==
  [error |-> None, imageData |-> Some(bitmap)]

\* convertBitmapToImageData(bitmap): [error, data]; ctxOk: getContext("2d") succeeds
convertBitmapToImageData(bitmap, offscreen, ctxOk) ==
  IF ~offscreen THEN [error |-> Some(NO_OFFSCREEN), imageData |-> None]
  ELSE IF ~ctxOk THEN [error |-> Some(CANNOT_CONVERT), imageData |-> None]
  ELSE [error |-> None, imageData |-> Some(bitmap)]

\* what the worker did with one PROCESS message: the payload's settings and what
\* it carried (with the handle of its bitmap), the stored default found, the
\* settings the tone adjustment used, the pixels it was applied to, and how many
\* handlers were suspended then
HandledRecord(m, used, source, path) ==
  [id |-> m.id, settings |-> m.payload.settings,
   hasBitmap |-> IsSome(m.payload.bitmap), hasImageData |-> IsSome(m.payload.imageData),
   bitmapBuf |-> IF IsSome(m.payload.bitmap) THEN Some(Val(m.payload.bitmap).buf) ELSE None,
   width |-> m.payload.width, height |-> m.payload.height,
   storedBefore |-> currentSettings, used |-> used, source |-> source,
   path |-> path, concurrent |-> Cardinality(awaiting)]

\* case "PROCESS", processPayload taking processWithOffscreen (lines 64-66, 83-117):
\* one synchronous run up to await createImageBitmap(processingCanvas)
WorkerProcessOffscreen(m) ==
  LET p == m.payload
      bitmap == Val(p.bitmap)
      stored == StoredAtProcess(currentSettings, p.settings)
      used == EffectiveSettings(stored, p.settings)
      held == workerRefs \cup PayloadBufs(p)
      prepared == IsSome(processingCanvas) /\ processingContext
  IN  /\ supportsOffscreen /\ IsSome(p.bitmap)
      /\ currentSettings' = stored
      /\ \E ctxOk \in (IF prepared THEN {TRUE} ELSE BOOLEAN) :
           IF ctxOk
           THEN LET drawn == applyAdjustments(DrawImage(bitmap, p.width, p.height), Some(used))
                IN  /\ processingCanvas' =
                         Some([width |-> p.width, height |-> p.height, data |-> drawn])
                    /\ processingContext' = TRUE
                    /\ awaiting' = awaiting \cup
                         {[id |-> m.id, width |-> p.width, height |-> p.height,
                           snapshot |-> drawn]}
                    /\ workerRefs' = held \ {bitmap.buf}
                    /\ handled' = handled \cup
                         {HandledRecord(m, Some(used), Some(bitmap.data), "offscreen")}
                    /\ UNCHANGED <<outbox, respCount>>
           ELSE /\ processingCanvas' =
                     Some([width |-> p.width, height |-> p.height,
                           data |-> Blank(p.width, p.height)])
                /\ processingContext' = FALSE
                /\ PostFromWorker(ErrorMessage(m.id, CANNOT_PREPARE), held \ {bitmap.buf})
                /\ handled' = handled \cup {HandledRecord(m, None, None, "error")}
                /\ UNCHANGED awaiting

\* case "PROCESS", processPayload on the ImageData path (lines 68-80): no await is
\* reached before the response is posted
WorkerProcessImageData(m) ==
  LET p == m.payload
      stored == StoredAtProcess(currentSettings, p.settings)
      used == EffectiveSettings(stored, p.settings)
      held == workerRefs \cup PayloadBufs(p)
      converted == IF IsSome(p.bitmap)
                   THEN convertBitmapToImageData(Val(p.bitmap), supportsOffscreen, TRUE)
                   ELSE [error |-> None, imageData |-> None]
      imageData == IF IsSome(p.imageData) THEN p.imageData ELSE converted.imageData
  IN  /\ ~(supportsOffscreen /\ IsSome(p.bitmap))
      /\ currentSettings' = stored
      /\ UNCHANGED <<processingCanvas, processingContext, awaiting>>
      /\ IF ~IsSome(p.imageData) /\ IsSome(converted.error)
         THEN \* convertBitmapToImageData closed the bitmap and threw
              /\ PostFromWorker(ErrorMessage(m.id, Val(converted.error)),
                                held \ {Val(p.bitmap).buf})
              /\ handled' = handled \cup {HandledRecord(m, None, None, "error")}
         ELSE IF ~IsSome(imageData)
         THEN /\ PostFromWorker(ErrorMessage(m.id, NO_IMAGE_DATA), held)
              /\ handled' = handled \cup {HandledRecord(m, None, None, "error")}
         ELSE LET processed ==
                    [Val(imageData) EXCEPT
                       !.data = applyAdjustmentsToImageData(Val(imageData).data, used)]
              IN  /\ PostFromWorker(
                       ProcessCompleteMessage(m.id,
                         [width |-> p.width, height |-> p.height,
                          bitmap |-> None, imageData |-> Some(processed)]),
                       held)
                  /\ handled' = handled \cup
                       {HandledRecord(m, Some(used), Some(Val(imageData).data), "imageData")}

WorkerHandleProcess ==
  /\ inbox # <<>>
  /\ Head(inbox).type = "PROCESS"
  /\ inbox' = Tail(inbox)
  /\ \/ WorkerProcessOffscreen(Head(inbox))
     \/ WorkerProcessImageData(Head(inbox))
  /\ UNCHANGED supportsOffscreen
  /\ UNCHANGED <<hookVars, clientId, stageVars, jobVars>>
  /\ UNCHANGED <<nextBuf, lastProcessId, delivered, errors>>

\* ProcessedBitmapData reading the shared canvas when the promise resolves
ProcessedBitmapDataAtResolve(a, canvas) == canvas.data

\* line 110: the bitmap createImageBitmap(processingCanvas) resolves with. The
\* copy of the canvas bitmap is taken when createImageBitmap is called, in the
\* handler's synchronous run; `canvas` is the canvas at the time the promise resolves.
ProcessedBitmapData(a, canvas) == a.snapshot

\* WorkerResume reporting the size the shared canvas has when the promise resolves
WorkerResumeCanvasSize ==
  \E a \in awaiting :
    /\ awaiting' = awaiting \ {a}
    /\ \/ /\ PostFromWorker(
               ProcessCompleteMessage(a.id,
                 [width |-> Val(processingCanvas).width,
                  height |-> Val(processingCanvas).height,
                  bitmap |-> Some([buf |-> nextBuf, width |-> a.width, height |-> a.height,
                                   data |-> ProcessedBitmapData(a, Val(processingCanvas))]),
                  imageData |-> None]),
               workerRefs \cup {nextBuf})
          /\ nextBuf' = nextBuf + 1
       \/ /\ PostFromWorker(ErrorMessage(a.id, BITMAP_FAILED), workerRefs)
          /\ UNCHANGED nextBuf
    /\ UNCHANGED <<supportsOffscreen, processingCanvas, processingContext, currentSettings,
                   inbox>>
    /\ UNCHANGED <<hookVars, clientId, stageVars, jobVars>>
    /\ UNCHANGED <<handled, lastProcessId, delivered, errors>>

\* the continuation of a suspended PROCESS handler: createImageBitmap resolved
\* (lines 110-116, 37) or rejected (lines 38-44)
WorkerResume ==
  \E a \in awaiting :
    /\ awaiting' = awaiting \ {a}
    /\ \/ /\ PostFromWorker(
               ProcessCompleteMessage(a.id,
                 [width |-> a.width, height |-> a.height,
                  bitmap |-> Some([buf |-> nextBuf, width |-> a.width, height |-> a.height,
                                   data |-> ProcessedBitmapData(a, Val(processingCanvas))]),
                  imageData |-> None]),
               workerRefs \cup {nextBuf})
          /\ nextBuf' = nextBuf + 1
       \/ /\ PostFromWorker(ErrorMessage(a.id, BITMAP_FAILED), workerRefs)
          /\ UNCHANGED nextBuf
    /\ UNCHANGED <<supportsOffscreen, processingCanvas, processingContext, currentSettings,
                   inbox>>
    /\ UNCHANGED <<hookVars, clientId, stageVars, jobVars>>
    /\ UNCHANGED <<handled, lastProcessId, delivered, errors>>

(***************************************************************************)
(* The hook useImageProcessor.                                             *)
(***************************************************************************)
CANNOT_READ_CANVAS == "Unable to read image data from canvas."

HookStart ==
  /\ idRef = 0
  /\ workerRef = None
  /\ ready = FALSE
  /\ storeSupportsOffscreen = None
  /\ capturing = {}
  /\ hookRefs = {}
  /\ mounts = 0

\* HookTransferables with an empty transfer list
HookTransferablesNone(payload) == {}

\* the transfer list processImage builds (lines 121-145)
HookTransferables(payload) ==
  (IF IsSome(payload.bitmap) THEN {Val(payload.bitmap).buf} ELSE {})
  \cup (IF ~IsSome(payload.bitmap) /\ IsSome(payload.imageData)
        THEN {Val(payload.imageData).buf} ELSE {})

\* worker.postMessage(message, transferables) on the worker of epoch `epoch`, the
\* caller holding `held` before the call; a terminated worker receives nothing
PostToWorker(epoch, message, transferables, held) ==
  /\ inbox' = IF workerRef = Some(epoch) THEN Append(inbox, message) ELSE inbox
  /\ hookRefs' = held \ transferables

\* the worker effect (lines 48-98): new Worker(...), INIT posted, listeners added
Mount ==
  /\ workerRef = None
  /\ mounts < MaxMounts
  /\ idRef + Cardinality(capturing) < MaxId
  /\ mounts' = mounts + 1
  /\ workerRef' = Some(mounts + 1)
  /\ idRef' = idRef + 1
  /\ inbox' = <<InitMessage(idRef + 1)>>
  /\ \E context \in BOOLEAN :
       processingContext' = (supportsOffscreen /\ context)
  /\ processingCanvas' = IF supportsOffscreen
                         THEN Some([width |-> 1, height |-> 1, data |-> Blank(1, 1)])
                         ELSE None
  /\ currentSettings' = None
  /\ awaiting' = {}
  /\ outbox' = <<>>
  /\ workerRefs' = {}
  /\ UNCHANGED <<supportsOffscreen, ready, storeSupportsOffscreen, capturing, hookRefs>>
  /\ UNCHANGED <<clientId, obsVars, stageVars, jobVars>>

\* the effect's cleanup without setReady(false) (line 104)
UnmountKeepsReady ==
  /\ IsSome(workerRef)
  /\ workerRef' = None
  /\ inbox' = <<>>
  /\ awaiting' = {}
  /\ outbox' = <<>>
  /\ workerRefs' = {}
  /\ UNCHANGED <<supportsOffscreen, processingCanvas, processingContext, currentSettings>>
  /\ UNCHANGED <<idRef, ready, storeSupportsOffscreen, capturing, hookRefs, mounts>>
  /\ UNCHANGED <<clientId, obsVars, stageVars, jobVars>>

\* the effect's cleanup (lines 99-105): listeners removed, worker.terminate()
Unmount ==
  /\ IsSome(workerRef)
  /\ workerRef' = None
  /\ ready' = FALSE
  /\ inbox' = <<>>
  /\ awaiting' = {}
  /\ outbox' = <<>>
  /\ workerRefs' = {}
  /\ UNCHANGED <<supportsOffscreen, processingCanvas, processingContext, currentSettings>>
  /\ UNCHANGED <<idRef, storeSupportsOffscreen, capturing, hookRefs, mounts>>
  /\ UNCHANGED <<clientId, obsVars, stageVars, jobVars>>

\* lines 134-151: the ImageData branch, the id and the post. `payload` holds the
\* bitmap when there is one; ctxOk: canvas.getContext("2d") succeeds
FinishProcessImage(epoch, image, settings, bitmapOpt, ctxOk) ==
  IF ~IsSome(bitmapOpt) /\ ~ctxOk
  THEN /\ errors' = errors \cup {CANNOT_READ_CANVAS}
       /\ nullReturns' = (nullReturns + 1) % 2
       /\ UNCHANGED <<idRef, inbox, hookRefs, nextBuf, lastProcessId>>
  ELSE LET payload ==
             [width |-> image.width, height |-> image.height, settings |-> settings,
              bitmap |-> bitmapOpt,
              imageData |-> IF IsSome(bitmapOpt) THEN None
                            ELSE Some(Surface(nextBuf, image))]
       IN  /\ idRef' = idRef + 1
           /\ nextBuf' = nextBuf + 1
           /\ lastProcessId' = idRef + 1
           /\ PostToWorker(epoch, ProcessMessage(idRef + 1, payload),
                           HookTransferables(payload), hookRefs \cup PayloadBufs(payload))
           /\ UNCHANGED <<errors, nullReturns>>

\* the canvases handed to processImage in this model, one of them with no pixels
HookImages ==
  {i \in SourceImages : i.width = 2} \cup {[width |-> 0, height |-> 1, data |-> <<>>]}

\* typeof createImageBitmap === "function" on the main thread
createImageBitmapIsFunction == TRUE

\* line 122 without the store's flag
canUseBitmapIgnoringStore == createImageBitmapIsFunction

\* line 122
canUseBitmap ==
  (IF IsSome(storeSupportsOffscreen) THEN Val(storeSupportsOffscreen) ELSE FALSE)
  /\ createImageBitmapIsFunction

\* processImage returning at its guard (lines 110-112): no worker, or a canvas
\* without pixels
ProcessImageReturnsNull ==
  \E image \in HookImages :
    /\ ~IsSome(workerRef) \/ image.width = 0 \/ image.height = 0
    /\ nullReturns' = (nullReturns + 1) % 2
    /\ UNCHANGED <<workerVars, hookVars, clientId, obsVars, stageVars>>
    /\ UNCHANGED <<decodeJob, ditherJob, probeJob, scanJob, overtakenPosts>>

\* processImage past its guard, up to its first suspension: either it awaits
\* createImageBitmap (lines 124-126) or it runs to the end on the ImageData branch
ProcessImage ==
  \E image \in HookImages, settings \in SettingsValues :
    /\ IsSome(workerRef)
    /\ image.width # 0 /\ image.height # 0
    /\ idRef + Cardinality(capturing) < MaxId
    /\ IF canUseBitmap
       THEN /\ capturing' = capturing \cup
                 {[worker |-> Val(workerRef), image |-> image, settings |-> settings,
                   seq |-> idRef + Cardinality(capturing),
                   rank |-> Cardinality(capturing) + 1, overtaken |-> FALSE]}
            /\ UNCHANGED <<idRef, inbox, hookRefs, nextBuf, lastProcessId, errors,
                           nullReturns>>
       ELSE /\ \E ctxOk \in BOOLEAN :
                 FinishProcessImage(Val(workerRef), image, settings, None, ctxOk)
            /\ UNCHANGED capturing
    /\ UNCHANGED <<supportsOffscreen, processingCanvas, processingContext, currentSettings,
                   awaiting, outbox, workerRefs>>
    /\ UNCHANGED <<workerRef, ready, storeSupportsOffscreen, mounts>>
    /\ UNCHANGED <<clientId, handled, respCount, delivered, stageVars>>
    /\ UNCHANGED <<decodeJob, ditherJob, probeJob, scanJob, overtakenPosts>>

\* a call d that stays suspended while the call c resumes: its place among the
\* suspended calls in order of invocation, and whether a call invoked after it
\* has posted its PROCESS message
StillCapturing(d, c, posted) ==
  [d EXCEPT !.rank = IF d.rank > c.rank THEN d.rank - 1 ELSE d.rank,
            !.overtaken = d.overtaken \/ (posted /\ d.rank < c.rank)]

\* processImage resumed: createImageBitmap(canvas) resolved (lines 127-128) or
\* rejected (lines 129-131), then lines 134-151
ProcessImageResume ==
  \E c \in capturing :
    /\ \/ FinishProcessImage(c.worker, c.image, c.settings,
                             Some(Surface(nextBuf, c.image)), TRUE)
       \/ \E ctxOk \in BOOLEAN :
            FinishProcessImage(c.worker, c.image, c.settings, None, ctxOk)
    /\ capturing' = {StillCapturing(d, c, idRef' # idRef) : d \in capturing \ {c}}
    /\ overtakenPosts' = IF idRef' # idRef /\ c.overtaken
                         THEN overtakenPosts \cup {idRef'}
                         ELSE overtakenPosts
    /\ UNCHANGED <<supportsOffscreen, processingCanvas, processingContext, currentSettings,
                   awaiting, outbox, workerRefs>>
    /\ UNCHANGED <<workerRef, ready, storeSupportsOffscreen, mounts>>
    /\ UNCHANGED <<clientId, handled, respCount, delivered, stageVars>>
    /\ UNCHANGED <<decodeJob, ditherJob, probeJob, scanJob>>

\* syncSettings posting with idRef.current as it is (no increment at line 161)
SyncSettingsSameId ==
  \E settings \in SettingsValues :
    /\ IsSome(workerRef)
    /\ idRef + Cardinality(capturing) < MaxId
    /\ idRef' = idRef
    /\ PostToWorker(Val(workerRef), UpdateSettingsMessage(idRef, settings), {}, hookRefs)
    /\ UNCHANGED <<supportsOffscreen, processingCanvas, processingContext, currentSettings,
                   awaiting, outbox, workerRefs>>
    /\ UNCHANGED <<workerRef, ready, storeSupportsOffscreen, capturing, mounts>>
    /\ UNCHANGED <<clientId, obsVars, stageVars, jobVars>>

\* syncSettings (lines 156-168)
SyncSettings ==
  \E settings \in SettingsValues :
    /\ IsSome(workerRef)
    /\ idRef + Cardinality(capturing) < MaxId
    /\ idRef' = idRef + 1
    /\ PostToWorker(Val(workerRef), UpdateSettingsMessage(idRef + 1, settings), {}, hookRefs)
    /\ UNCHANGED <<supportsOffscreen, processingCanvas, processingContext, currentSettings,
                   awaiting, outbox, workerRefs>>
    /\ UNCHANGED <<workerRef, ready, storeSupportsOffscreen, capturing, mounts>>
    /\ UNCHANGED <<clientId, obsVars, stageVars, jobVars>>

\* handleMessage (lines 62-86), attached while the worker of the effect lives
HandleMessage ==
  /\ IsSome(workerRef)
  /\ outbox # <<>>
  /\ outbox' = Tail(outbox)
  /\ LET message == Head(outbox)
     IN  CASE message.type = "READY" ->
                /\ storeSupportsOffscreen' = Some(message.payload.supportsOffscreen)
                /\ ready' = TRUE
                /\ UNCHANGED <<delivered, errors, hookRefs>>
           [] message.type = "PROCESS_COMPLETE" ->
                /\ delivered' = delivered \cup
                     {[id |-> message.id, latest |-> lastProcessId]}
                /\ hookRefs' = hookRefs \cup MessageBufs(message)
                /\ UNCHANGED <<storeSupportsOffscreen, ready, errors>>
           [] message.type = "SETTINGS_ACK" ->
                UNCHANGED <<storeSupportsOffscreen, ready, delivered, errors, hookRefs>>
           [] message.type = "ERROR" ->
                /\ errors' = errors \cup {message.error}
                /\ UNCHANGED <<storeSupportsOffscreen, ready, delivered, hookRefs>>
  /\ UNCHANGED <<supportsOffscreen, processingCanvas, processingContext, currentSettings,
                 inbox, awaiting, workerRefs>>
  /\ UNCHANGED <<idRef, workerRef, capturing, mounts>>
  /\ UNCHANGED <<clientId, nextBuf, handled, respCount, lastProcessId, stageVars, jobVars>>

(***************************************************************************)
(* A client of the worker that speaks the bare protocol: it posts any      *)
(* WorkerIncomingMessage (bitmap and imageData are both optional in        *)
(* WorkerProcessPayload) with a fresh id.  What the worker posts stays in   *)
(* outbox.                                                                 *)
(***************************************************************************)
PayloadKinds == {"bitmap", "imageData", "both", "neither"}

ClientPayload(kind, image, settings, buf) ==
  [width |-> image.width, height |-> image.height, settings |-> settings,
   bitmap |-> IF kind \in {"bitmap", "both"} THEN Some(Surface(buf, image)) ELSE None,
   imageData |-> IF kind \in {"imageData", "both"} THEN Some(Surface(buf + 1, image))
                 ELSE None]

\* the settings the client sends: the default profile and one that differs in tone
ClientSettings == {s \in SettingsValues : s.contrast = 0}

\* the surfaces the client sends with each kind of payload
ClientImages(kind) ==
  IF kind \in {"bitmap", "imageData"} THEN {i \in SourceImages : i.width = 2}
  ELSE {i \in SourceImages : i.width = 1}

ClientMessages(id, buf) ==
  {InitMessage(id)}
  \cup {UpdateSettingsMessage(id, s) : s \in ClientSettings}
  \cup UNION { {ProcessMessage(id, ClientPayload(k, i, s, buf)) :
                  i \in ClientImages(k), s \in ClientSettings} : k \in PayloadKinds }

ClientPost ==
  \E message \in ClientMessages(clientId + 1, nextBuf) :
    /\ clientId < MaxPosts
    /\ clientId' = clientId + 1
    /\ inbox' = Append(inbox, message)
    /\ nextBuf' = nextBuf + 2
    /\ UNCHANGED <<supportsOffscreen, processingCanvas, processingContext, currentSettings,
                   awaiting, outbox, workerRefs>>
    /\ UNCHANGED <<hookVars, stageVars, jobVars>>
    /\ UNCHANGED <<handled, respCount, lastProcessId, delivered, errors>>

(***************************************************************************)
(* CanvasStage: file intake (handleFiles) and its helpers.                 *)
(*                                                                         *)
(* A File is [name, size, type].  name is the sequence of the pieces of    *)
(* the file name between its dots ("photo.PNG" is <<"photo", "PNG">>,      *)
(* "png" is <<"png">>), so name.split(".").pop() is the last piece.        *)
(* File.type is lower case (the File API stores it so).                    *)
(***************************************************************************)
FILE_SIZE_LIMIT_BYTES == 15 * 1024 * 1024

SUPPORTED_MIME_TYPES == {"image/png", "image/jpeg", "image/webp", "image/svg+xml"}

EXTENSION_MIME_MAP ==
  [png |-> "image/png", jpg |-> "image/jpeg", jpeg |-> "image/jpeg",
   webp |-> "image/webp", svg |-> "image/svg+xml"]

\* String.prototype.toLowerCase on the strings of the model
toLowerCase(str) ==
  CASE str = "PNG" -> "png"
    [] str = "JPG" -> "jpg"
    [] str = "Photo" -> "photo"
    [] OTHER -> str

Last(seq) == seq[Len(seq)]

normaliseMimeType(file) ==
  LET declaredType == toLowerCase(file.type)
      extension == toLowerCase(Last(file.name))
  IN  IF declaredType # "" /\ declaredType \in SUPPORTED_MIME_TYPES
      THEN Some(declaredType)
      ELSE IF extension \in DOMAIN EXTENSION_MIME_MAP
           THEN Some(EXTENSION_MIME_MAP[extension])
           ELSE None

File(name, type, size) == [name |-> name, size |-> size, type |-> type]

\* the files handed to handleFiles in this model
Files ==
  { File(<<"Photo", "PNG">>, "", 2048),
    File(<<"scan", "jpeg">>, "image/webp", FILE_SIZE_LIMIT_BYTES),
    File(<<"scan", "jpeg">>, "image/jpeg", FILE_SIZE_LIMIT_BYTES + 1),
    File(<<"notes", "txt">>, "text/plain", 2048),
    File(<<"notes", "txt">>, "text/plain", FILE_SIZE_LIMIT_BYTES + 1),
    File(<<"archive", "svg", "gz">>, "", 2048),
    File(<<"png">>, "", 2048) }

StageSources == {"drop", "paste", "picker"}

\* the status values handleFiles sets: type and message, and what the message
\* interpolates (the source label, the file size, the file name)
StageStatus(type, message, label, size, name) ==
  [type |-> type, message |-> message, label |-> label, size |-> size, name |-> name]

StatusInitial ==
  StageStatus("info", "Drop, paste, or pick an image to load it onto the canvas.",
              "", 0, <<>>)

StatusNoData == StageStatus("error", "No image data detected.", "", 0, <<>>)

StatusUnsupported ==
  StageStatus("error", "Unsupported file type. Try PNG, JPEG, WebP, or SVG.", "", 0, <<>>)

\* `File is too large (${formatFileSize(file.size)}). Maximum allowed is ...`
StatusTooLarge(file) == StageStatus("error", "File is too large", "", file.size, <<>>)

StatusDecoding == StageStatus("info", "Decoding image", "", 0, <<>>)

sourceLabel(source) ==
  IF source = "paste" THEN "pasted" ELSE IF source = "drop" THEN "dropped" ELSE "selected"

\* `Successfully ${sourceLabel} "${file.name}".`
StatusSuccess(file, source) ==
  StageStatus("success", "Successfully", sourceLabel(source), 0, file.name)

\* error.message || "Failed to decode image."
DecodeErrors == {"Unable to decode image.", "Image has invalid dimensions.", ""}

StatusDecodeError(message) ==
  StageStatus("error", IF message # "" THEN message ELSE "Failed to decode image.",
              "", 0, <<>>)

StageStart ==
  /\ operationIdRef = 0
  /\ isProcessing = FALSE
  /\ status = StatusInitial
  /\ imageState = None
  /\ decoding = {}
  /\ lastCall = [files |-> <<>>, verdict |-> "none", touched |-> FALSE]
  /\ lastSettled = None

\* an observation of the call made last: the files handed over, what the call
\* did, and whether it changed the operation counter, imageState or isProcessing
Called(files, verdict) ==
  lastCall' = [files |-> files, verdict |-> verdict,
               touched |-> \/ operationIdRef' # operationIdRef
                           \/ imageState' # imageState
                           \/ isProcessing' # isProcessing]

\* lines 226-227: normaliseMimeType(file) gives a supported type
TypeAccepted(file) ==
  IsSome(normaliseMimeType(file)) /\ Val(normaliseMimeType(file)) \in SUPPORTED_MIME_TYPES

\* line 235
TooLarge(file) == file.size > FILE_SIZE_LIMIT_BYTES

\* a return at validation with the operation counter drawn before it
RejectAfterCounting(files, verdict, message) ==
  /\ operationIdRef < MaxOps
  /\ operationIdRef' = operationIdRef + 1
  /\ status' = message
  /\ UNCHANGED <<isProcessing, imageState, decoding>>
  /\ Called(files, verdict)

\* a return at validation (lines 213-216, 227-233, 235-241): setStatus and return
Reject(files, verdict, message) ==
  /\ status' = message
  /\ UNCHANGED <<operationIdRef, isProcessing, imageState, decoding>>
  /\ Called(files, verdict)

\* handleFiles(files, source) up to its first suspension (lines 211-248);
\* files is the list handed over (only list[0] is read)
HandleFiles ==
  \E files \in {<<>>} \cup {<<f>> : f \in Files}, source \in StageSources :
    /\ \/ /\ files = <<>>
          /\ Reject(files, "no-files", StatusNoData)
       \/ /\ files # <<>>
          /\ ~TypeAccepted(files[1])
          /\ Reject(files, "unsupported", StatusUnsupported)
       \/ /\ files # <<>>
          /\ TypeAccepted(files[1])
          /\ TooLarge(files[1])
          /\ Reject(files, "too-large", StatusTooLarge(files[1]))
       \/ /\ files # <<>>
          /\ TypeAccepted(files[1])
          /\ ~TooLarge(files[1])
          /\ operationIdRef < MaxOps
          /\ operationIdRef' = operationIdRef + 1
          /\ isProcessing' = TRUE
          /\ status' = StatusDecoding
          /\ decoding' = decoding \cup
               {[operationId |-> operationIdRef + 1, file |-> files[1],
                 normalizedType |-> Val(normaliseMimeType(files[1])), source |-> source]}
          /\ UNCHANGED imageState
          /\ Called(files, "decoding")
    /\ UNCHANGED lastSettled
    /\ UNCHANGED <<workerVars, hookVars, clientId, obsVars, jobVars>>

\* IsCurrent without the comparison of the counters
IsCurrentAlways(op, counter) == TRUE

\* line 250 / 267 / 280: the operation still holds the current counter value
IsCurrent(op, counter) == counter = op.operationId

\* the canvas decodeFileToCanvas resolves with, as far as handleFiles reads it
DecodedImageState(op) ==
  [canvas |-> op.operationId, name |-> op.file.name, size |-> op.file.size,
   type |-> op.normalizedType]

\* handleFiles resumed: decodeFileToCanvas resolved (lines 250-265) or rejected
\* (lines 266-278), then the finally block (lines 279-283)
DecodeSettles ==
  \E op \in decoding :
    /\ decoding' = decoding \ {op}
    /\ \/ IF IsCurrent(op, operationIdRef)
          THEN /\ imageState' = Some(DecodedImageState(op))
               /\ status' = StatusSuccess(op.file, op.source)
               /\ isProcessing' = FALSE
          ELSE UNCHANGED <<imageState, status, isProcessing>>
       \/ \E message \in DecodeErrors :
            IF IsCurrent(op, operationIdRef)
            THEN /\ status' = StatusDecodeError(message)
                 /\ isProcessing' = FALSE
                 /\ UNCHANGED imageState
            ELSE UNCHANGED <<imageState, status, isProcessing>>
    /\ lastSettled' = Some([operationId |-> op.operationId,
                             stale |-> op.operationId # operationIdRef])
    /\ UNCHANGED <<operationIdRef, lastCall>>
    /\ UNCHANGED <<workerVars, hookVars, clientId, obsVars, jobVars>>

(***************************************************************************)
(* decodeFileToCanvas: getExifOrientation and renderSourceToOrientedCanvas *)
(* (src/components/canvas-stage.tsx 470-609).                              *)
(*                                                                         *)
(* An ArrayBuffer is the sequence of its bytes.  A DataView read that goes *)
(* past the end of the buffer throws a RangeError: the read operators give *)
(* None for it.                                                            *)
(***************************************************************************)
InBounds(buffer, offset, count) == offset >= 0 /\ offset + count <= Len(buffer)

getUint8(buffer, offset) ==
  IF InBounds(buffer, offset, 1) THEN Some(buffer[offset + 1]) ELSE None

getUint16(buffer, offset, littleEndian) ==
  IF ~InBounds(buffer, offset, 2) THEN None
  ELSE IF littleEndian THEN Some(buffer[offset + 2] * 256 + buffer[offset + 1])
  ELSE Some(buffer[offset + 1] * 256 + buffer[offset + 2])

\* an offset no buffer of the model reaches: every read there throws
FarOffset == 1073741824

\* getUint32; a value of 2^30 or more is held as FarOffset, which keeps the sums
\* of the caller inside 32 bits and leaves every later read out of bounds
getUint32(buffer, offset, littleEndian) ==
  IF ~InBounds(buffer, offset, 4) THEN None
  ELSE LET b == IF littleEndian
                THEN <<buffer[offset + 4], buffer[offset + 3], buffer[offset + 2],
                       buffer[offset + 1]>>
                ELSE <<buffer[offset + 1], buffer[offset + 2], buffer[offset + 3],
                       buffer[offset + 4]>>
       IN  IF b[1] >= 64 THEN Some(FarOffset)
           ELSE Some(((b[1] * 256 + b[2]) * 256 + b[3]) * 256 + b[4])

\* getAscii(view, start, length): the character codes read
getAscii(buffer, start, length) ==
  IF ~InBounds(buffer, start, length) THEN None
  ELSE Some([i \in 1..length |-> buffer[start + i]])

\* "Exif"
EXIF_ASCII == <<69, 120, 105, 102>>

\* the loop over the directory entries (lines 582-589) from entry i on:
\* Some(orientation found), Some(0) when no entry holds the tag, None on a RangeError
RECURSIVE ScanEntries(_, _, _, _, _)
ScanEntries(buffer, directoryOffset, i, entries, littleEndian) ==
  IF i >= entries THEN Some(0)
  ELSE LET entryOffset == directoryOffset + 2 + i * 12
           tag == getUint16(buffer, entryOffset, littleEndian)
       IN  IF ~IsSome(tag) THEN None
           ELSE IF Val(tag) = 274
           THEN LET value == getUint16(buffer, entryOffset + 8, littleEndian)
                IN  IF ~IsSome(value) THEN None
                    ELSE Some(IF Val(value) = 0 THEN 1 ELSE Val(value))
           ELSE ScanEntries(buffer, directoryOffset, i + 1, entries, littleEndian)

\* the APP1 branch (lines 569-590) for the marker at `offset`:
\* Some(value returned), Some(0) for break, None on a RangeError
ReadApp1(buffer, offset) ==
  LET segmentLength == getUint16(buffer, offset + 2, FALSE)
      exifStart == offset + 4
      ascii == getAscii(buffer, exifStart, 4)
      tiffOffset == exifStart + 6
      order == getUint16(buffer, tiffOffset, FALSE)
      littleEndian == Val(order) = 18761
      firstIFDOffset == getUint32(buffer, tiffOffset + 4, littleEndian)
      directoryOffset == tiffOffset + Val(firstIFDOffset)
      entries == getUint16(buffer, directoryOffset, littleEndian)
  IN  IF ~IsSome(segmentLength) THEN None
      ELSE IF ~IsSome(ascii) THEN None
      ELSE IF Val(ascii) # EXIF_ASCII THEN Some(0)
      ELSE IF ~IsSome(order) THEN None
      ELSE IF ~IsSome(firstIFDOffset) THEN None
      ELSE IF ~IsSome(entries) THEN None
      ELSE ScanEntries(buffer, directoryOffset, 0, Val(entries), littleEndian)

\* one pass of the body of the while loop with line 593 adding segmentLength only
ScanIterationWithoutMarkerBytes(buffer, offset) ==
  IF Val(getUint8(buffer, offset)) # 255
  THEN [continues |-> FALSE, offset |-> offset, outcome |-> Some(0)]
  ELSE LET marker == getUint8(buffer, offset + 1)
           segmentLength == getUint16(buffer, offset + 2, FALSE)
       IN  IF ~IsSome(marker) THEN [continues |-> FALSE, offset |-> offset, outcome |-> None]
           ELSE IF Val(marker) = 225
           THEN [continues |-> FALSE, offset |-> offset, outcome |-> ReadApp1(buffer, offset)]
           ELSE IF ~IsSome(segmentLength)
           THEN [continues |-> FALSE, offset |-> offset, outcome |-> None]
           ELSE [continues |-> TRUE, offset |-> offset + Val(segmentLength),
                 outcome |-> Some(0)]

\* one pass of the body of the while loop (lines 563-594) at `offset` < length:
\* whether the loop goes on and from which offset, and otherwise the outcome:
\* Some(value returned), Some(0) for break, None on a RangeError
ScanIteration(buffer, offset) ==
  IF Val(getUint8(buffer, offset)) # 255
  THEN [continues |-> FALSE, offset |-> offset, outcome |-> Some(0)]
  ELSE LET marker == getUint8(buffer, offset + 1)
           segmentLength == getUint16(buffer, offset + 2, FALSE)
       IN  IF ~IsSome(marker) THEN [continues |-> FALSE, offset |-> offset, outcome |-> None]
           ELSE IF Val(marker) = 225
           THEN [continues |-> FALSE, offset |-> offset, outcome |-> ReadApp1(buffer, offset)]
           ELSE IF ~IsSome(segmentLength)
           THEN [continues |-> FALSE, offset |-> offset, outcome |-> None]
           ELSE [continues |-> TRUE, offset |-> offset + 2 + Val(segmentLength),
                 outcome |-> Some(0)]

\* the while loop (lines 562-595) from `offset` on, with the same results
RECURSIVE ScanSegments(_, _)
ScanSegments(buffer, offset) ==
  IF offset >= Len(buffer) THEN Some(0)
  ELSE LET pass == ScanIteration(buffer, offset)
       IN  IF pass.continues THEN ScanSegments(buffer, pass.offset) ELSE pass.outcome

\* the body of the try block (lines 554-595): Some(value returned inside it),
\* Some(0) when it runs to its end, None when it throws
ExifTry(buffer) ==
  LET soi == getUint16(buffer, 0, FALSE)
  IN  IF ~IsSome(soi) THEN None
      ELSE IF Val(soi) # 65496 THEN Some(1)
      ELSE ScanSegments(buffer, 2)

\* what becomes of a RangeError thrown in the try block: caught (line 596)
Caught(outcome) == IF IsSome(outcome) THEN outcome ELSE Some(0)

\* getExifOrientation(buffer): [threw, value]
getExifOrientation(buffer) ==
  LET outcome == Caught(ExifTry(buffer))
  IN  IF ~IsSome(outcome) THEN [threw |-> TRUE, value |-> 0]
      ELSE [threw |-> FALSE, value |-> IF Val(outcome) = 0 THEN 1 ELSE Val(outcome)]

\* the arguments of ctx.transform with the two quarter turns exchanged
OrientationTransformTurnsExchanged(orientation, width, height) ==
  CASE orientation = 2 -> <<-1, 0, 0, 1, width, 0>>
    [] orientation = 3 -> <<-1, 0, 0, -1, width, height>>
    [] orientation = 4 -> <<1, 0, 0, -1, 0, height>>
    [] orientation = 5 -> <<0, 1, 1, 0, 0, 0>>
    [] orientation = 6 -> <<0, -1, 1, 0, 0, width>>
    [] orientation = 7 -> <<0, -1, -1, 0, height, width>>
    [] orientation = 8 -> <<0, 1, -1, 0, height, 0>>
    [] OTHER -> <<1, 0, 0, 1, 0, 0>>

\* the arguments (a, b, c, d, e, f) of ctx.transform for the orientation
OrientationTransform(orientation, width, height) ==
  CASE orientation = 2 -> <<-1, 0, 0, 1, width, 0>>
    [] orientation = 3 -> <<-1, 0, 0, -1, width, height>>
    [] orientation = 4 -> <<1, 0, 0, -1, 0, height>>
    [] orientation = 5 -> <<0, 1, 1, 0, 0, 0>>
    [] orientation = 6 -> <<0, 1, -1, 0, height, 0>>
    [] orientation = 7 -> <<0, -1, -1, 0, height, width>>
    [] orientation = 8 -> <<0, -1, 1, 0, 0, width>>
    [] OTHER -> <<1, 0, 0, 1, 0, 0>>

\* the canvas point the matrix (a, b, c, d, e, f) sends the point (x, y) to
TransformPoint(m, x, y) == <<m[1] * x + m[3] * y + m[5], m[2] * x + m[4] * y + m[6]>>

\* the canvas pixel that the unit square of source pixel (x, y) is drawn onto
TargetPixel(m, x, y) ==
  LET p == TransformPoint(m, x, y)
      q == TransformPoint(m, x + 1, y + 1)
  IN  <<Min(p[1], q[1]), Min(p[2], q[2])>>

INVALID_DIMENSIONS == "Image has invalid dimensions."

CANNOT_RENDER == "Unable to render onto canvas."

\* a decoded source and a canvas hold one value per pixel, row by row; 0 is a
\* pixel nothing was drawn onto
PixelAt(image, x, y) == image.data[y * image.width + x + 1]

\* renderSourceToOrientedCanvas(source, orientation): [error, canvas];
\* ctxOk: canvas.getContext("2d") succeeds
renderSourceToOrientedCanvas(source, orientation, ctxOk) ==
  LET width == source.width
      height == source.height
      needsSwap == orientation >= 5 /\ orientation <= 8
      canvasWidth == IF needsSwap THEN height ELSE width
      canvasHeight == IF needsSwap THEN width ELSE height
      m == OrientationTransform(orientation, width, height)
      drawnFrom(X, Y) == {xy \in (0..(width - 1)) \X (0..(height - 1)) :
                            TargetPixel(m, xy[1], xy[2]) = <<X, Y>>}
      pixel(X, Y) == IF drawnFrom(X, Y) = {} THEN 0
                     ELSE LET xy == CHOOSE xy \in drawnFrom(X, Y) : TRUE
                          IN  PixelAt(source, xy[1], xy[2])
  IN  IF width = 0 \/ height = 0 THEN [error |-> Some(INVALID_DIMENSIONS), canvas |-> None]
      ELSE IF ~ctxOk THEN [error |-> Some(CANNOT_RENDER), canvas |-> None]
      ELSE [error |-> None,
            canvas |-> Some([width |-> canvasWidth, height |-> canvasHeight,
                             data |-> [k \in 1..(canvasWidth * canvasHeight) |->
                                         pixel((k - 1) % canvasWidth,
                                               (k - 1) \div canvasWidth)]])]

(***************************************************************************)
(* The files decodeFileToCanvas is given in this model: JPEG files with an *)
(* APP1 segment built from a few choices, whole or cut short, and files    *)
(* that are no JPEG.                                                       *)
(***************************************************************************)
U16(v, littleEndian) ==
  IF littleEndian THEN <<v % 256, v \div 256>> ELSE <<v \div 256, v % 256>>

U32(v, littleEndian) ==
  IF littleEndian THEN U16(v % 65536, TRUE) \o U16(v \div 65536, TRUE)
  ELSE U16(v \div 65536, FALSE) \o U16(v % 65536, FALSE)

\* the byte-order marks: "II", "MM", and "XX", which is no byte-order mark
ByteOrders == {"II", "MM", "XX"}

OrderBytes(order) ==
  CASE order = "II" -> <<73, 73>>
    [] order = "MM" -> <<77, 77>>
    [] OTHER -> <<88, 88>>

\* the TIFF block: header, one directory of one entry (the orientation tag 0x0112,
\* or the image-width tag 0x0100 when withTag is FALSE), no next directory
TiffBlock(order, withTag, value) ==
  LET le == order = "II"
  IN  OrderBytes(order) \o U16(42, le) \o U32(8, le) \o U16(1, le)
      \o U16(IF withTag THEN 274 ELSE 256, le) \o U16(3, le) \o U32(1, le)
      \o U16(value, le) \o U16(0, le) \o U32(0, le)

\* SOI, an optional APP0 segment, the APP1 segment; declaredShort: the length
\* field of APP1 covers "Exif\0\0" only
JpegBytes(f) ==
  LET tiff == TiffBlock(f.order, f.withTag, f.value)
      declared == IF f.declaredShort THEN 8 ELSE 2 + 6 + Len(tiff)
  IN  <<255, 216>>
      \o (IF f.lead THEN <<255, 224, 0, 4, 74, 70>> ELSE <<>>)
      \o <<255, 225>> \o U16(declared, FALSE) \o EXIF_ASCII \o <<0, 0>> \o tiff

\* the orientation values the files hold
TagValues == 0..9

JpegShape(order, value, withTag, lead, declaredShort, cut) ==
  [order |-> order, value |-> value, withTag |-> withTag, lead |-> lead,
   declaredShort |-> declaredShort, cut |-> cut]

\* whole files
WholeJpegs ==
  {JpegShape(o, v, t, l, d, 44) :
     o \in ByteOrders, v \in TagValues, t \in BOOLEAN, l \in BOOLEAN, d \in BOOLEAN}

\* files cut after `cut` bytes
CutJpegs ==
  {JpegShape(o, 6, TRUE, l, FALSE, c) : o \in ByteOrders, l \in BOOLEAN, c \in 0..43}

FileBytes(f) ==
  LET bytes == JpegBytes(f)
  IN  SubSeq(bytes, 1, Min(f.cut, Len(bytes)))

DecodeInputs ==
  {[shape |-> f, buffer |-> FileBytes(f), mimeType |-> "image/jpeg"] :
     f \in WholeJpegs \cup CutJpegs}
  \cup {[shape |-> f, buffer |-> FileBytes(f), mimeType |-> "image/png"] :
          f \in {JpegShape("MM", 6, TRUE, FALSE, FALSE, 44)}}
  \cup {[shape |-> JpegShape("MM", 1, FALSE, FALSE, FALSE, 0),
         buffer |-> <<137, 80, 78, 71, 13, 10, 26, 10>>, mimeType |-> m] :
          m \in {"image/png", "image/jpeg"}}

\* what createImageBitmap(blob) or loadImageFromBlob(blob) resolves with
DecodedSources ==
  { [width |-> 1, height |-> 1, data |-> <<7>>],
    [width |-> 3, height |-> 2, data |-> <<1, 2, 3, 4, 5, 6>>],
    [width |-> 1, height |-> 3, data |-> <<1, 2, 3>>],
    [width |-> 0, height |-> 0, data |-> <<>>] }

NoSource == [width |-> 0, height |-> 0, data |-> <<>>]

DecodeJob(stage, input, orientation, source, canvas, error) ==
  [stage |-> stage, input |-> input, orientation |-> orientation, source |-> source,
   canvas |-> canvas, error |-> error]

DecodeIdle ==
  DecodeJob("idle", [shape |-> JpegShape("MM", 1, FALSE, FALSE, FALSE, 0),
                     buffer |-> <<>>, mimeType |-> ""], 0, NoSource, None, None)

\* the surfaces the pipeline is run on: flat RGBA bytes
DitherImages ==
  { [width |-> 1, height |-> 1, data |-> <<128, 128, 128, 255>>],
    [width |-> 2, height |-> 1, data |-> <<100, 100, 100, 255, 120, 120, 120, 255>>],
    [width |-> 2, height |-> 2,
     data |-> <<200, 100, 30, 255, 10, 250, 128, 255, 0, 0, 0, 0, 255, 254, 1, 7>>],
    [width |-> 9, height |-> 1,
     data |-> <<128, 128, 128, 255, 10, 20, 30, 255, 40, 50, 60, 255, 70, 80, 90, 255,
                100, 110, 120, 255, 130, 140, 150, 255, 160, 170, 180, 255,
                190, 200, 210, 255, 128, 128, 128, 255>>],
    [width |-> 9, height |-> 1,
     data |-> <<128, 128, 128, 255, 250, 0, 0, 255, 0, 250, 0, 255, 0, 0, 250, 255,
                5, 5, 5, 255, 250, 250, 250, 255, 60, 70, 80, 255,
                1, 2, 3, 255, 128, 128, 128, 255>>],
    [width |-> 1, height |-> 9,
     data |-> <<90, 140, 200, 255, 10, 20, 30, 255, 40, 50, 60, 255, 70, 80, 90, 255,
                100, 110, 120, 255, 130, 140, 150, 255, 160, 170, 180, 255,
                190, 200, 210, 255, 90, 140, 200, 255>>] }

\* the palettes handed to createQuantizer: entries are integers, some outside
\* 0..255, some equal after clamping, some at equal distances of a sample
Palettes ==
  { << <<0, 0, 0>>, <<255, 255, 255>>, <<200, 100, 30>> >>,
    << <<10, 0, 0>>, <<11, 0, 0>>, <<10, 1, 0>> >>,
    << <<2, 0, 0>>, <<0, 0, 0>>, <<0, 2, 0>>, <<1, 1, 0>> >>,
    << <<300, -20, 128>>, <<255, 0, 128>>, <<0, 0, 0>>, <<-5, -5, -5>> >>,
    << <<77, 77, 77>> >> }

DitherConfig(algorithm, intensity, palette, levels, mode) ==
  [algorithm |-> algorithm, intensity |-> intensity, palette |-> palette,
   levels |-> levels, mode |-> mode]

\* palette, levels and mode of an ApplyDitheringConfig
QuantizerSettings ==
  {<<Some(<< <<0, 0, 0>>, <<255, 255, 255>>, <<200, 100, 30>> >>), 2, None>>}
  \cup {<<None, levels, mode>> : levels \in {2, 4}, mode \in {None, Some("per-channel")}}

\* algorithm and intensity (in units of 1/IntensityDen); for "none" the
\* intensity is not read
Strengths ==
  {<<"none", 0>>}
  \cup {<<a, i>> : a \in {"floyd-steinberg", "ordered-bayer-8x8"}, i \in {0, 2, 4}}

\* the runs of the model with one choice of palette, levels and mode
DitherRuns(quantizer) ==
  {<<image, DitherConfig(st[1], st[2], quantizer[1], quantizer[2], quantizer[3])>> :
     image \in DitherImages, st \in Strengths}

Run(image, config, output) == [input |-> image, config |-> config, output |-> output]

NoRun ==
  Run([width |-> 0, height |-> 0, data |-> <<>>],
      DitherConfig("none", 0, None, 2, None),
      [width |-> 0, height |-> 0, data |-> <<>>])

\* a call of the QuantizeFn: the palette, the sample (r, g, b) in halves, the result
Probe(palette, sample, result) == [palette |-> palette, sample |-> sample, result |-> result]

NoProbe == Probe(<<>>, <<0, 0, 0>>, <<0, 0, 0>>)

\* the samples the QuantizeFn is called with, in halves (21 is 10.5)
ProbeSamples == {0, 1, 2, 3, 21, 255, 510}

DitherIdle == [stage |-> "idle", first |-> NoRun, second |-> NoRun, probe |-> NoProbe]

\* applyDithering(imageData, config) on a fresh copy of the surface
DitherStart ==
  /\ ditherJob.stage = "idle"
  /\ \E quantizer \in QuantizerSettings :
       \E run \in DitherRuns(quantizer) :
         ditherJob' = [ditherJob EXCEPT
                         !.stage = "ran",
                         !.first = Run(run[1], run[2], applyDithering(run[1], run[2]))]
  /\ UNCHANGED <<workerVars, hookVars, clientId, obsVars, stageVars, decodeJob,
               probeJob, scanJob, overtakenPosts, nullReturns>>

\* applyDithering called again, on any surface, with the same palette, levels and
\* mode and any algorithm and intensity
DitherAgain ==
  /\ ditherJob.stage = "ran"
  /\ LET c == ditherJob.first.config
     IN  \E run \in DitherRuns(<<c.palette, c.levels, c.mode>>) :
           ditherJob' = [ditherJob EXCEPT
                           !.stage = "compared",
                           !.second = Run(run[1], run[2], applyDithering(run[1], run[2]))]
  /\ UNCHANGED <<workerVars, hookVars, clientId, obsVars, stageVars, decodeJob,
               probeJob, scanJob, overtakenPosts, nullReturns>>

\* createQuantizer({ palette }) and one call of the QuantizeFn it returns
QuantizeProbe ==
  /\ ditherJob.stage = "idle"
  /\ \E palette \in Palettes, r \in ProbeSamples, g \in ProbeSamples, b \in ProbeSamples :
       LET q == createQuantizer([palette |-> Some(palette), levels |-> None, mode |-> None])
           half == FP \div 2
       IN  ditherJob' = [ditherJob EXCEPT
                           !.stage = "probed",
                           !.probe = Probe(palette, <<r, g, b>>,
                                           Quantize(q, r * half, g * half, b * half))]
  /\ UNCHANGED <<workerVars, hookVars, clientId, obsVars, stageVars, decodeJob,
               probeJob, scanJob, overtakenPosts, nullReturns>>

\* the results are dropped
DitherRelease ==
  /\ ditherJob.stage \in {"compared", "probed"}
  /\ ditherJob' = DitherIdle
  /\ UNCHANGED <<workerVars, hookVars, clientId, obsVars, stageVars, decodeJob,
               probeJob, scanJob, overtakenPosts, nullReturns>>

ProbeIdle == [kind |-> "idle"]

\* the samples, brightness offsets and contrast values of the tone calls
ToneSamples == 0..255

ToneBrightness == {-300, -255, -129, -10, -1, 0, 1, 10, 127, 255, 300}

ToneContrast == {-1, 0, 1}

\* applyAdjustmentsToImageData(imageData, settings) on one pixel
ToneProbe ==
  /\ probeJob = ProbeIdle
  /\ \E v \in ToneSamples, alpha \in {0, 255},
        brightness \in ToneBrightness, contrast \in ToneContrast :
       LET data == <<v, 255 - v, (7 * v) % 256, alpha>>
           settings == [DEFAULT_SETTINGS EXCEPT !.brightness = brightness,
                                                !.contrast = contrast]
       IN  probeJob' = [kind |-> "tone", data |-> data, settings |-> settings,
                        result |-> applyAdjustmentsToImageData(data, settings)]
  /\ UNCHANGED <<workerVars, hookVars, clientId, obsVars, stageVars, decodeJob,
                 ditherJob, scanJob, overtakenPosts, nullReturns>>

\* the levels and modes handed to createQuantizer without a palette, and the
\* channel values (over FP) its QuantizeFn is called with: bytes, the half
\* between two bytes, and values a dithering offset takes outside 0..255
LevelRequests == {None} \cup {Some(l) : l \in {-3, 0, 1, 2, 3, 256, 300}}

LevelModes == {None, Some("grayscale"), Some("per-channel")}

LevelSamples ==
  {-128 * FP, 0, 127 * FP, (127 * FP) + (FP \div 2), 128 * FP, 255 * FP, 383 * FP}

\* createQuantizer({levels, mode}) and one call of the QuantizeFn it returns
LevelProbe ==
  /\ probeJob = ProbeIdle
  /\ \E levels \in LevelRequests, mode \in LevelModes,
        r \in LevelSamples, g \in LevelSamples, b \in LevelSamples :
       LET options == [palette |-> None, levels |-> levels, mode |-> mode]
           quantizer == createQuantizer(options)
       IN  probeJob' = [kind |-> "levels", options |-> options, sample |-> <<r, g, b>>,
                        quantizer |-> quantizer, result |-> Quantize(quantizer, r, g, b)]
  /\ UNCHANGED <<workerVars, hookVars, clientId, obsVars, stageVars, decodeJob,
                 ditherJob, scanJob, overtakenPosts, nullReturns>>

\* the algorithm keys handed to applyDithering: the three of DitheringAlgorithmKey,
\* the operation keys of the tone-only profile, and keys of Object.prototype
AlgorithmKeys ==
  {"none", "floyd-steinberg", "ordered-bayer-8x8", "identity", "enhance", "denoise"}
    \cup ObjectPrototypeKeys

\* applyDithering(imageData, config) with any algorithm key
StrategyProbe ==
  /\ probeJob = ProbeIdle
  /\ \E image \in SourceImages, algorithm \in AlgorithmKeys, intensity \in {0, 4},
        quantizer \in QuantizerSettings :
       LET config == DitherConfig(algorithm, intensity, quantizer[1], quantizer[2],
                                  quantizer[3])
       IN  probeJob' = [kind |-> "dither", image |-> image, config |-> config,
                        result |-> applyDithering(image, config)]
  /\ UNCHANGED <<workerVars, hookVars, clientId, obsVars, stageVars, decodeJob,
                 ditherJob, scanJob, overtakenPosts, nullReturns>>

\* the result is dropped
ProbeRelease ==
  /\ probeJob # ProbeIdle
  /\ probeJob' = ProbeIdle
  /\ UNCHANGED <<workerVars, hookVars, clientId, obsVars, stageVars, decodeJob,
                 ditherJob, scanJob, overtakenPosts, nullReturns>>

\* the buffers of the stepwise segment scans: the files of DecodeInputs, and
\* every sequence of up to MaxScanBytes bytes out of ScanBytes (0xFF, the APP1
\* marker 0xE1, and the lengths 0, 1, 2) with and without the SOI marker in front
MaxScanBytes == 4

ScanBytes == {0, 1, 2, 225, 255}

\* the sequences of exactly k bytes out of ScanBytes behind `head`
RECURSIVE ByteSequences(_, _)
ByteSequences(head, k) ==
  IF k = 0 THEN {head}
  ELSE {Append(s, b) : s \in ByteSequences(head, k - 1), b \in ScanBytes}

ScanBuffers ==
  {input.buffer : input \in DecodeInputs}
  \cup UNION {ByteSequences(<<255, 216>>, k) \cup ByteSequences(<<>>, k) :
                k \in 0..MaxScanBytes}

\* what getExifOrientation returns for the outcome of its try block
ExifValue(outcome) ==
  IF ~IsSome(Caught(outcome)) \/ Val(Caught(outcome)) = 0 THEN 1 ELSE Val(Caught(outcome))

\* getExifOrientation(buffer) entered: lines 554-560, up to the loop
ExifStart ==
  /\ probeJob = ProbeIdle
  /\ \E buffer \in ScanBuffers :
       LET soi == getUint16(buffer, 0, FALSE)
           scans == IsSome(soi) /\ Val(soi) = 65496
       IN  probeJob' = [kind |-> "exif", buffer |-> buffer,
                        stage |-> IF scans THEN "scanning" ELSE "returned",
                        offset |-> 2, iterations |-> 0, value |-> 1]
  /\ UNCHANGED <<workerVars, hookVars, clientId, obsVars, stageVars, decodeJob,
                 ditherJob, scanJob, overtakenPosts, nullReturns>>

\* the test of line 562 and, when it holds, one pass of the loop body
ExifIterate ==
  /\ probeJob.kind = "exif" /\ probeJob.stage = "scanning"
  /\ IF probeJob.offset >= Len(probeJob.buffer)
     THEN probeJob' = [probeJob EXCEPT !.stage = "returned"]
     ELSE LET pass == ScanIteration(probeJob.buffer, probeJob.offset)
          IN  probeJob' = [probeJob EXCEPT
                             !.stage = IF pass.continues THEN "scanning" ELSE "returned",
                             !.offset = pass.offset,
                             !.iterations = probeJob.iterations + 1,
                             !.value = IF pass.continues THEN 1
                                       ELSE ExifValue(pass.outcome)]
  /\ UNCHANGED <<workerVars, hookVars, clientId, obsVars, stageVars, decodeJob,
                 ditherJob, scanJob, overtakenPosts, nullReturns>>

\* the returned value is dropped
ExifRelease ==
  /\ probeJob.kind = "exif" /\ probeJob.stage = "returned"
  /\ probeJob' = ProbeIdle
  /\ UNCHANGED <<workerVars, hookVars, clientId, obsVars, stageVars, decodeJob,
                 ditherJob, scanJob, overtakenPosts, nullReturns>>

ScanIdle == [stage |-> "idle"]

\* the surfaces of the stepwise runs: those of DitherImages and one of three
\* columns and two rows whose errors drive accumulators to both ends of the range
ScanImages ==
  DitherImages \cup
  { [width |-> 3, height |-> 2,
     data |-> <<127, 128, 200, 255, 128, 127, 60, 255, 250, 10, 128, 9,
                250, 5, 250, 255, 3, 252, 128, 255, 127, 127, 127, 0>>] }

\* options.intensity in units of 1/IntensityDen, within and beyond [0, 1]
ScanIntensities == {0, 1, 2, 3, 4, 6}

\* floydSteinbergDither.apply entered (lines 23-27): diffusedPixels is a copy of data
ScanStart ==
  /\ scanJob = ScanIdle
  /\ \E image \in ScanImages, intensity \in ScanIntensities,
        quantizer \in QuantizerSettings :
       scanJob' = [stage |-> "scanning", image |-> image, intensity |-> intensity,
                   quantizer |-> quantizer, p |-> 0, data |-> image.data,
                   diffusedPixels |-> [i \in DOMAIN image.data |-> image.data[i] * FP]]
  /\ UNCHANGED <<workerVars, hookVars, clientId, obsVars, stageVars, decodeJob,
                 ditherJob, probeJob, overtakenPosts, nullReturns>>

\* the QuantizeFn of a run
ScanQuantize(job) ==
  createQuantizer([palette |-> job.quantizer[1], levels |-> Some(job.quantizer[2]),
                   mode |-> job.quantizer[3]])

\* one pass of the loop body (lines 31-68); after the last pixel apply returns
ScanPixel ==
  /\ scanJob.stage = "scanning"
  /\ LET image == scanJob.image
         pass == FloydSteinbergPixel(scanJob.p, image.width, image.height, scanJob.data,
                                     scanJob.diffusedPixels,
                                     ScaledIntensity(scanJob.intensity),
                                     ScanQuantize(scanJob))
     IN  scanJob' = [scanJob EXCEPT
                       !.stage = IF scanJob.p + 1 >= image.width * image.height
                                 THEN "returned" ELSE "scanning",
                       !.p = scanJob.p + 1,
                       !.data = pass.data,
                       !.diffusedPixels = pass.diffusedPixels]
  /\ UNCHANGED <<workerVars, hookVars, clientId, obsVars, stageVars, decodeJob,
                 ditherJob, probeJob, overtakenPosts, nullReturns>>

\* the returned surface is dropped
ScanRelease ==
  /\ scanJob.stage = "returned"
  /\ scanJob' = ScanIdle
  /\ UNCHANGED <<workerVars, hookVars, clientId, obsVars, stageVars, decodeJob,
                 ditherJob, probeJob, overtakenPosts, nullReturns>>

JobStart ==
  /\ decodeJob = DecodeIdle
  /\ ditherJob = DitherIdle
  /\ probeJob = ProbeIdle
  /\ scanJob = ScanIdle
  /\ overtakenPosts = {}
  /\ nullReturns = 0

\* decodeFileToCanvas(file, mimeType) called; file.arrayBuffer() resolves (line 471)
DecodeStart ==
  /\ decodeJob.stage \in {"idle", "rendered", "failed"}
  /\ \E input \in DecodeInputs :
       decodeJob' = DecodeJob("read", input, 0, NoSource, None, None)
  /\ UNCHANGED <<workerVars, hookVars, clientId, obsVars, stageVars, ditherJob,
               probeJob, scanJob, overtakenPosts, nullReturns>>

\* line 472
DecodeOrientation ==
  /\ decodeJob.stage = "read"
  /\ LET found == IF decodeJob.input.mimeType = "image/jpeg"
                  THEN getExifOrientation(decodeJob.input.buffer)
                  ELSE [threw |-> FALSE, value |-> 1]
     IN  decodeJob' =
           IF found.threw
           THEN [decodeJob EXCEPT !.stage = "failed", !.error = Some("RangeError")]
           ELSE [decodeJob EXCEPT !.stage = "oriented", !.orientation = found.value]
  /\ UNCHANGED <<workerVars, hookVars, clientId, obsVars, stageVars, ditherJob,
               probeJob, scanJob, overtakenPosts, nullReturns>>

\* lines 475-495: the blob is decoded to a source, the source is rendered
DecodeRender ==
  /\ decodeJob.stage = "oriented"
  /\ \E source \in DecodedSources, ctxOk \in BOOLEAN :
       LET rendered == renderSourceToOrientedCanvas(source, decodeJob.orientation, ctxOk)
       IN  decodeJob' =
             [decodeJob EXCEPT
                !.stage = IF IsSome(rendered.error) THEN "failed" ELSE "rendered",
                !.source = source,
                !.canvas = rendered.canvas,
                !.error = rendered.error]
  /\ UNCHANGED <<workerVars, hookVars, clientId, obsVars, stageVars, ditherJob,
               probeJob, scanJob, overtakenPosts, nullReturns>>

(***************************************************************************)
(* Specifications.                                                         *)
(***************************************************************************)
ObsStart ==
  /\ nextBuf = 1
  /\ handled = {}
  /\ respCount = [i \in Ids |-> 0]
  /\ lastProcessId = 0
  /\ delivered = {}
  /\ errors = {}

\* Spec: one hook instance and the worker it starts
Init ==
  /\ \E offscreen \in BOOLEAN : WorkerStart(offscreen, FALSE)
  /\ HookStart
  /\ clientId = 0
  /\ ObsStart
  /\ StageStart
  /\ JobStart

Next ==
  \/ Mount
  \/ Unmount
  \/ ProcessImage
  \/ ProcessImageResume
  \/ SyncSettings
  \/ HandleMessage
  \/ WorkerHandleInit
  \/ WorkerHandleUpdateSettings
  \/ WorkerHandleProcess
  \/ WorkerResume

Spec == Init /\ [][Next]_vars

\* CallSpec: the hook and the start of its worker, with every return of
\* processImage observed; the worker answers INIT and nothing else
CallNext ==
  \/ Mount
  \/ Unmount
  \/ ProcessImageReturnsNull
  \/ ProcessImage
  \/ ProcessImageResume
  \/ HandleMessage
  \/ WorkerHandleInit

CallSpec == Init /\ [][CallNext]_vars

\* WorkerSpec: the worker alone, driven by a client of the bare protocol
WorkerInit ==
  /\ \E offscreen \in BOOLEAN, context \in BOOLEAN : WorkerStart(offscreen, context)
  /\ HookStart
  /\ clientId = 0
  /\ ObsStart
  /\ StageStart
  /\ JobStart

WorkerNext ==
  \/ ClientPost
  \/ WorkerHandleInit
  \/ WorkerHandleUpdateSettings
  \/ WorkerHandleProcess
  \/ WorkerResume

WorkerSpec == WorkerInit /\ [][WorkerNext]_vars

\* the worker's event loop dispatches every queued message, and every
\* createImageBitmap promise settles
WorkerFairSpec ==
  /\ WorkerSpec
  /\ WF_vars(WorkerHandleInit)
  /\ WF_vars(WorkerHandleUpdateSettings)
  /\ WF_vars(WorkerHandleProcess)
  /\ WF_vars(WorkerResume)

\* StageSpec: the file intake of CanvasStage
StageNext ==
  \/ HandleFiles
  \/ DecodeSettles

StageSpec == Init /\ [][StageNext]_vars

\* DecodeSpec: runs of decodeFileToCanvas
DecodeNext ==
  \/ DecodeStart
  \/ DecodeOrientation
  \/ DecodeRender

DecodeSpec == Init /\ [][DecodeNext]_vars

\* DitherSpec: runs of applyDithering and calls of the quantizer
DitherNext ==
  \/ DitherStart
  \/ DitherAgain
  \/ QuantizeProbe
  \/ DitherRelease

DitherSpec == Init /\ [][DitherNext]_vars

\* ProbeSpec: single calls of the pure functions of the pipeline
ProbeNext ==
  \/ ToneProbe
  \/ LevelProbe
  \/ StrategyProbe
  \/ ProbeRelease

ProbeSpec == Init /\ [][ProbeNext]_vars

\* ScanSpec: runs of floydSteinbergDither.apply, one pixel at a time
ScanNext ==
  \/ ScanStart
  \/ ScanPixel
  \/ ScanRelease

ScanSpec == Init /\ [][ScanNext]_vars

\* ExifSpec: runs of getExifOrientation, one pass of the segment scan at a time
ExifNext ==
  \/ ExifStart
  \/ ExifIterate
  \/ ExifRelease

ExifSpec == Init /\ [][ExifNext]_vars

\* the function runs on without being interrupted
ExifFairSpec == ExifSpec /\ WF_vars(ExifIterate)

(***************************************************************************)
(* Helpers of the properties.                                              *)
(***************************************************************************)
\* positions in outbox of the responses (PROCESS_COMPLETE, ERROR) to id i
ResponsesTo(i) == {k \in DOMAIN outbox : IsResponse(outbox[k]) /\ outbox[k].id = i}

ErrorPosted(i, text) ==
  \E k \in DOMAIN outbox :
    outbox[k].type = "ERROR" /\ outbox[k].id = i /\ outbox[k].error = text

CompletePosted(i) ==
  \E k \in DOMAIN outbox : outbox[k].type = "PROCESS_COMPLETE" /\ outbox[k].id = i

\* the bitmaps the worker has posted: <<id, bitmap>>
PostedBitmaps ==
  {<<outbox[k].id, Val(outbox[k].payload.bitmap)>> :
     k \in {j \in DOMAIN outbox : outbox[j].type = "PROCESS_COMPLETE"
                                  /\ IsSome(outbox[j].payload.bitmap)}}

\* the ImageData the worker has posted: <<id, imageData>>
PostedImageData ==
  {<<outbox[k].id, Val(outbox[k].payload.imageData)>> :
     k \in {j \in DOMAIN outbox : outbox[j].type = "PROCESS_COMPLETE"
                                  /\ IsSome(outbox[j].payload.imageData)}}

\* how many places hold buffer b: the caller side, the worker, a message in flight
InFlight(queue, b) == Cardinality({k \in DOMAIN queue : b \in MessageBufs(queue[k])})

Holders(b) ==
  (IF b \in hookRefs THEN 1 ELSE 0) + (IF b \in workerRefs THEN 1 ELSE 0)
  + InFlight(inbox, b) + InFlight(outbox, b)

(***************************************************************************)
(* C1 (Spec).  A PROCESS_COMPLETE whose id is not the id of the PROCESS    *)
(* message issued last never reaches onResult: every call of onResult      *)
(* carries the id that was the latest PROCESS id at the time of the call.  *)
(* handleMessage hands every PROCESS_COMPLETE to onResult, so this fails.  *)
(***************************************************************************)
C1_StaleResultDiscarded == \A d \in delivered : d.id = d.latest

(***************************************************************************)
(* C2 (WorkerSpec).  The tone adjustment of every PROCESS request uses the *)
(* settings of the request's own payload, whatever default was stored      *)
(* before and whatever else is in flight: the settings used are the        *)
(* payload's, and the adjusted pixels (the snapshot of a suspended         *)
(* handler, the ImageData of a response) are the request's pixels adjusted *)
(* with the payload's settings.                                            *)
(***************************************************************************)
C2_PayloadSettingsApplied ==
  /\ \A h \in handled : IsSome(h.used) => Val(h.used) = h.settings
  /\ \A a \in awaiting : \E h \in handled :
       /\ h.id = a.id
       /\ a.snapshot = applyAdjustmentsToImageData(Val(h.source), h.settings)
  /\ \A r \in PostedImageData : \E h \in handled :
       /\ h.id = r[1]
       /\ r[2].data = applyAdjustmentsToImageData(Val(h.source), h.settings)

\* a request was adjusted while a stored default with another brightness was set,
\* and its response is posted
C2_Witness ==
  \E h \in handled :
    /\ IsSome(h.storedBefore)
    /\ Val(h.storedBefore).brightness # h.settings.brightness
    /\ IsSome(h.used)
    /\ CompletePosted(h.id)

(***************************************************************************)
(* C3 (WorkerSpec).  Original claim: the worker never begins handling a    *)
(* PROCESS message while the response of an earlier one is still to be     *)
(* posted.  The async handler suspends at await createImageBitmap and the  *)
(* next message is handled meanwhile, so this fails.                       *)
(***************************************************************************)
C3_SerialProcessing == \A h \in handled : h.concurrent = 0

(***************************************************************************)
(* C3 as amended (WorkerSpec).  Handlers may overlap, but each request     *)
(* resizes, clears, draws, adjusts and copies processingCanvas in one      *)
(* uninterrupted run, so no request sees the canvas of another: every      *)
(* bitmap the worker posts has the size of its own request and the pixels  *)
(* drawn and adjusted for its own request.                                 *)
(***************************************************************************)
C3_CanvasNotShared ==
  \A r \in PostedBitmaps : \E h \in handled :
    /\ h.id = r[1]
    /\ h.path = "offscreen"
    /\ r[2].width = h.width /\ r[2].height = h.height
    /\ r[2].data = applyAdjustmentsToImageData(Val(h.source), h.settings)

\* two requests overlapped and both got their bitmaps, with different pixels
C3_Witness ==
  /\ \E h \in handled : h.concurrent > 0
  /\ \E r1 \in PostedBitmaps, r2 \in PostedBitmaps :
       r1[1] # r2[1] /\ r1[2].data # r2[2].data

(***************************************************************************)
(* C4 (WorkerFairSpec).  The worker posts at most one response per id,     *)
(* only for ids of PROCESS messages it has handled, and every handled      *)
(* PROCESS message eventually has exactly one response with its id.        *)
(***************************************************************************)
C4_ResponsesMatch ==
  \A i \in Ids :
    /\ Cardinality(ResponsesTo(i)) <= 1
    /\ ResponsesTo(i) # {} => \E h \in handled : h.id = i

C4_ExactlyOneResponse ==
  /\ []C4_ResponsesMatch
  /\ \A i \in 1..MaxPosts :
       (\E h \in handled : h.id = i) ~> (Cardinality(ResponsesTo(i)) = 1)

\* a suspended handler was resumed and its response is posted, and another
\* request was answered with an ERROR
C4_Witness ==
  /\ \E h \in handled : h.path = "offscreen" /\ Cardinality(ResponsesTo(h.id)) = 1
  /\ \E h \in handled : h.path = "error" /\ ErrorPosted(h.id, NO_IMAGE_DATA)

(***************************************************************************)
(* C5 (WorkerSpec).  The pixels of every PROCESS_COMPLETE response are the *)
(* request's pixels after the tone adjustment and then the dithering       *)
(* strategy the settings select (none, floyd-steinberg, ordered-bayer-8x8) *)
(* with the quantizer of colorDepth levels, in one of the two level modes. *)
(* The worker adjusts the tone and posts the result: applyDithering is     *)
(* never called, so the response holds the unquantized pixels.             *)
(***************************************************************************)
C5_ToneThenDither ==
  \A r \in PostedBitmaps \cup PostedImageData : \E h \in handled :
    /\ h.id = r[1]
    /\ \E mode \in {"grayscale", "per-channel"} :
         r[2].data =
           applyDithering(
             [width |-> h.width, height |-> h.height,
              data |-> applyAdjustmentsToImageData(Val(h.source), h.settings)],
             [algorithm |-> h.settings.algorithm,
              intensity |-> h.settings.ditheringIntensity,
              palette |-> h.settings.palette,
              levels |-> h.settings.colorDepth,
              mode |-> Some(mode)]).data

(***************************************************************************)
(* C6 (StageSpec).  A decode that settles (resolved or rejected) while the *)
(* operation counter differs from the value it captured leaves imageState, *)
(* status and isProcessing as they were; imageState is only ever set by    *)
(* the operation that holds the current counter value, to its own image.   *)
(***************************************************************************)
C6_StaleDecodeSilent ==
  [][ /\ \A op \in decoding :
           (op \notin decoding' /\ op.operationId # operationIdRef)
             => UNCHANGED <<imageState, status, isProcessing>>
      /\ imageState' # imageState =>
           \E op \in decoding :
             /\ op \notin decoding'
             /\ op.operationId = operationIdRef
             /\ imageState' = Some(DecodedImageState(op)) ]_vars

\* a superseded decode has settled while the current one is still decoding
C6_Witness ==
  /\ IsSome(lastSettled)
  /\ Val(lastSettled).stale
  /\ isProcessing
  /\ status = StatusDecoding
  /\ \E op \in decoding : op.operationId = operationIdRef

(***************************************************************************)
(* C7 (Spec).  Every pixel buffer and every bitmap is held in one place at *)
(* a time: by the caller side, by the worker, or by one message in flight. *)
(* A side that has posted a buffer holds no usable reference to it.        *)
(***************************************************************************)
C7_SingleOwner == \A b \in 1..(nextBuf - 1) : Holders(b) <= 1

\* a processed surface came back to the caller while another request's buffer
\* is with the worker side
C7_Witness ==
  /\ hookRefs # {}
  /\ delivered # {}
  /\ \E b \in 1..(nextBuf - 1) : b \notin hookRefs /\ Holders(b) = 1

(***************************************************************************)
(* C8 (WorkerSpec).  Original claim: without OffscreenCanvas and without   *)
(* imageData in the payload the request is answered with the no-image-data *)
(* ERROR, whether or not the payload carries a bitmap.                     *)
(***************************************************************************)
C8_AlwaysNoImageData ==
  \A h \in handled :
    (~supportsOffscreen /\ ~h.hasImageData)
      => ErrorPosted(h.id, NO_IMAGE_DATA) /\ ~CompletePosted(h.id)

(***************************************************************************)
(* C8 as amended (WorkerSpec).  Without OffscreenCanvas and without        *)
(* imageData the request is answered with one ERROR carrying its id and no *)
(* PROCESS_COMPLETE; the message is the no-image-data message when the     *)
(* payload carries no bitmap and the OffscreenCanvas-not-supported message *)
(* of convertBitmapToImageData when it carries one.                        *)
(***************************************************************************)
C8_ErrorWithoutPixels ==
  \A h \in handled :
    (~supportsOffscreen /\ ~h.hasImageData)
      => /\ ErrorPosted(h.id, IF h.hasBitmap THEN NO_OFFSCREEN ELSE NO_IMAGE_DATA)
         /\ ~CompletePosted(h.id)
         /\ Cardinality(ResponsesTo(h.id)) = 1

\* both cases were handled: a payload with a bitmap only and an empty payload
C8_Witness ==
  /\ ~supportsOffscreen
  /\ \E h \in handled : ~h.hasImageData /\ h.hasBitmap /\ ErrorPosted(h.id, NO_OFFSCREEN)
  /\ \E h \in handled : ~h.hasImageData /\ ~h.hasBitmap /\ ErrorPosted(h.id, NO_IMAGE_DATA)

(***************************************************************************)
(* C9 (StageSpec).  A file larger than 15,728,640 bytes is rejected as too *)
(* large whatever its type and extension, with the counter, imageState and *)
(* isProcessing untouched; a file of exactly 15,728,640 bytes is not       *)
(* rejected for its size.  handleFiles checks the type first, so a file    *)
(* that is too large and of an unsupported type is rejected as unsupported.*)
(***************************************************************************)
C9_TooLargeWhateverType ==
  lastCall.files # <<>> =>
    /\ lastCall.files[1].size > 15728640
         => lastCall.verdict = "too-large" /\ ~lastCall.touched
    /\ lastCall.files[1].size = 15728640 => lastCall.verdict # "too-large"

(***************************************************************************)
(* C10 (StageSpec).  normaliseMimeType gives the declared type when it is  *)
(* supported, else the type mapped from the file's extension (the part of  *)
(* the name after its last dot; a name without a dot has none), and when   *)
(* neither matches handleFiles reports the unsupported format and starts   *)
(* no decode.  The code takes the last piece of name.split("."), which for *)
(* a name without a dot is the whole name: a file named "png" with no      *)
(* declared type is taken for image/png and decoded.                       *)
(***************************************************************************)
C10_DeclaredTypeThenExtension ==
  lastCall.files # <<>> =>
    LET file == lastCall.files[1]
        declaredType == toLowerCase(file.type)
        extension == IF Len(file.name) > 1 THEN toLowerCase(Last(file.name)) ELSE ""
        expected == IF declaredType \in SUPPORTED_MIME_TYPES THEN Some(declaredType)
                    ELSE IF extension \in DOMAIN EXTENSION_MIME_MAP
                    THEN Some(EXTENSION_MIME_MAP[extension])
                    ELSE None
    IN  /\ normaliseMimeType(file) = expected
        /\ ~IsSome(expected) => lastCall.verdict = "unsupported" /\ ~lastCall.touched


(***************************************************************************)
(* C11 (DecodeSpec).  getExifOrientation never fails: a file whose         *)
(* orientation tag is absent, whose segment structure is malformed (no     *)
(* byte-order mark in the TIFF header, or directory data lying outside the *)
(* declared length of the APP1 segment), or whose bytes end before the     *)
(* value gives orientation 1, and a file of another type than JPEG is not  *)
(* scanned and gives 1.  The code checks neither the byte-order mark nor   *)
(* the declared length: it reads any mark other than "II" as big-endian    *)
(* and returns the value it finds.                                         *)
(***************************************************************************)
C11_ValueEnd(f) == IF f.lead THEN 38 ELSE 32

C11_Malformed(f) == f.order = "XX" \/ f.declaredShort

C11_DefaultsToOne ==
  decodeJob.stage \in {"oriented", "rendered", "failed"} =>
    LET f == decodeJob.input.shape
        fromJpegBytes == decodeJob.input.buffer = FileBytes(f)
    IN  /\ decodeJob.error # Some("RangeError")
        /\ decodeJob.stage = "oriented" =>
             /\ decodeJob.input.mimeType # "image/jpeg" => decodeJob.orientation = 1
             /\ (fromJpegBytes /\ (~f.withTag \/ C11_Malformed(f) \/ f.cut < C11_ValueEnd(f)))
                  => decodeJob.orientation = 1

(***************************************************************************)
(* C12 (DecodeSpec).  For an orientation in 1..8 and a source of w x h     *)
(* pixels, the canvas is w x h for 1..4 and h x w for 5..8, every source   *)
(* pixel (x, y) lies inside it at the position of the orientation          *)
(* (1 identity, 2 horizontal flip, 3 rotation by 180 degrees, 4 vertical   *)
(* flip, 5 transpose, 6 rotation by 90 degrees clockwise, 7 anti-transpose,*)
(* 8 rotation by 90 degrees counter-clockwise), and holds its value.       *)
(***************************************************************************)
C12_CanonicalPosition(o, x, y, w, h) ==
  CASE o = 1 -> <<x, y>>
    [] o = 2 -> <<w - 1 - x, y>>
    [] o = 3 -> <<w - 1 - x, h - 1 - y>>
    [] o = 4 -> <<x, h - 1 - y>>
    [] o = 5 -> <<y, x>>
    [] o = 6 -> <<h - 1 - y, x>>
    [] o = 7 -> <<h - 1 - y, w - 1 - x>>
    [] o = 8 -> <<y, w - 1 - x>>

C12_CanonicalPlacement ==
  (decodeJob.stage = "rendered" /\ decodeJob.orientation \in 1..8) =>
    LET o == decodeJob.orientation
        source == decodeJob.source
        canvas == Val(decodeJob.canvas)
        w == source.width
        h == source.height
    IN  /\ canvas.width = (IF o <= 4 THEN w ELSE h)
        /\ canvas.height = (IF o <= 4 THEN h ELSE w)
        /\ Len(canvas.data) = w * h
        /\ \A x \in 0..(w - 1), y \in 0..(h - 1) :
             LET at == C12_CanonicalPosition(o, x, y, w, h)
             IN  /\ at[1] \in 0..(canvas.width - 1)
                 /\ at[2] \in 0..(canvas.height - 1)
                 /\ PixelAt(canvas, at[1], at[2]) = PixelAt(source, x, y)

\* a 3 x 2 source was rendered under orientation 7 onto a 2 x 3 canvas
C12_Witness ==
  /\ decodeJob.stage = "rendered"
  /\ decodeJob.orientation = 7
  /\ decodeJob.source.width = 3
  /\ decodeJob.source.height = 2
  /\ Val(decodeJob.canvas).width = 2


(***************************************************************************)
(* C13 (WorkerSpec).  Handling INIT posts exactly one message, READY with  *)
(* the id of the INIT and the worker's capability flag; handling           *)
(* UPDATE_SETTINGS makes the given settings the stored default and posts   *)
(* exactly one message, SETTINGS_ACK with the same id.  Neither changes    *)
(* the processing canvas or its context, suspends a handler, records a     *)
(* processing run, or adds a PROCESS_COMPLETE or ERROR.                    *)
(***************************************************************************)
C13_Dequeues(type) == inbox # <<>> /\ Head(inbox).type = type /\ inbox' = Tail(inbox)

C13_NoProcessing ==
  UNCHANGED <<processingCanvas, processingContext, awaiting, handled, respCount, workerRefs>>

C13_InitAndSettingsOnlyAcknowledge ==
  [][ /\ C13_Dequeues("INIT") =>
           /\ outbox' = Append(outbox, ReadyMessage(Head(inbox).id, supportsOffscreen))
           /\ currentSettings' = currentSettings
           /\ C13_NoProcessing
      /\ C13_Dequeues("UPDATE_SETTINGS") =>
           /\ outbox' = Append(outbox, SettingsAckMessage(Head(inbox).id))
           /\ currentSettings' = Some(Head(inbox).payload.settings)
           /\ C13_NoProcessing ]_vars

\* an INIT and an UPDATE_SETTINGS with settings other than the default were
\* handled, and READY and SETTINGS_ACK are all the worker has posted
C13_Witness ==
  /\ inbox = <<>>
  /\ Len(outbox) = 2
  /\ outbox[1].type = "READY"
  /\ outbox[2].type = "SETTINGS_ACK"
  /\ IsSome(currentSettings)
  /\ Val(currentSettings) # DEFAULT_SETTINGS
  /\ handled = {}

(***************************************************************************)
(* C14 (WorkerSpec).  Every PROCESS_COMPLETE carries exactly one of bitmap *)
(* and imageData: a bitmap when the worker has OffscreenCanvas and the     *)
(* request carried a bitmap, imageData otherwise; its width and height are *)
(* the width and height of the request with its id.                        *)
(***************************************************************************)
C14_CompleteMirrorsRequest ==
  \A i \in 1..Len(outbox) :
    outbox[i].type = "PROCESS_COMPLETE" =>
      LET payload == outbox[i].payload
      IN  /\ IsSome(payload.bitmap) # IsSome(payload.imageData)
          /\ \E h \in handled : h.id = outbox[i].id
          /\ \A h \in handled :
               h.id = outbox[i].id =>
                 /\ IsSome(payload.bitmap) = (supportsOffscreen /\ h.hasBitmap)
                 /\ payload.width = h.width
                 /\ payload.height = h.height

\* a request with a bitmap was answered with a bitmap and a request with
\* imageData only with imageData, by a worker that has OffscreenCanvas
C14_Witness ==
  /\ supportsOffscreen
  /\ \E i, j \in 1..Len(outbox) :
       /\ outbox[i].type = "PROCESS_COMPLETE" /\ IsSome(outbox[i].payload.bitmap)
       /\ outbox[j].type = "PROCESS_COMPLETE" /\ IsSome(outbox[j].payload.imageData)


(***************************************************************************)
(* C15 (Spec).  The ids of the messages the hook posts to its worker are   *)
(* strictly increasing in the order of posting, whatever their type: a     *)
(* posted message carries an id larger than every id posted before it (all *)
(* of which are at most idRef.current), the queued messages are in         *)
(* increasing order of id, and idRef.current never decreases.              *)
(***************************************************************************)
C15_Posts ==
  /\ inbox' # <<>>
  /\ Len(inbox') = Len(inbox) + 1 \/ workerRef' # workerRef

C15_IdsStrictlyIncreasing ==
  /\ [](\A i \in 1..Len(inbox) :
          /\ inbox[i].id <= idRef
          /\ \A j \in 1..Len(inbox) : i < j => inbox[i].id < inbox[j].id)
  /\ [][ /\ idRef' >= idRef
         /\ C15_Posts => Last(inbox').id = idRef' /\ idRef' > idRef ]_vars

\* INIT, UPDATE_SETTINGS and PROCESS were posted in this order with ids 1, 2, 3
C15_Witness ==
  /\ Len(inbox) = 3
  /\ inbox[1].type = "INIT" /\ inbox[1].id = 1
  /\ inbox[2].type = "UPDATE_SETTINGS" /\ inbox[2].id = 2
  /\ inbox[3].type = "PROCESS" /\ inbox[3].id = 3

(***************************************************************************)
(* C16 (Spec).  The life of a worker: it is started with INIT as the first *)
(* message of its queue and handles a PROCESS or UPDATE_SETTINGS only      *)
(* after it has answered INIT (its READY is queued for the hook or was     *)
(* received); ready is true only while a worker is attached, and becomes   *)
(* true only by receiving READY from that worker; terminating the worker   *)
(* clears ready and leaves none of its messages to be delivered; while no  *)
(* worker is attached nothing is delivered to onResult, no worker error is *)
(* delivered to onError, and no message reaches a worker.                  *)
(***************************************************************************)
C16_InitAnswered == ready \/ \E i \in 1..Len(outbox) : outbox[i].type = "READY"

C16_WorkerHandles(type) ==
  /\ workerRef' = workerRef
  /\ inbox # <<>>
  /\ Head(inbox).type = type
  /\ inbox' = Tail(inbox)

C17_Clamped(entry) ==
  <<Max(0, Min(255, entry[1])), Max(0, Min(255, entry[2])), Max(0, Min(255, entry[3]))>>

C17_Distance(sample, entry) ==
  LET e == C17_Clamped(entry)
      d(c) == sample[c] - 2 * e[c]
  IN  d(1) * d(1) + d(2) * d(2) + d(3) * d(3)

C17_FirstNearest(probe, i) ==
  /\ \A j \in DOMAIN probe.palette :
       C17_Distance(probe.sample, probe.palette[i]) <= C17_Distance(probe.sample, probe.palette[j])
  /\ \A j \in 1..(i - 1) :
       C17_Distance(probe.sample, probe.palette[j]) > C17_Distance(probe.sample, probe.palette[i])

C17_PaletteNearestFirst ==
  ditherJob.stage = "probed" =>
    \E i \in DOMAIN ditherJob.probe.palette :
      /\ ditherJob.probe.result = C17_Clamped(ditherJob.probe.palette[i])
      /\ C17_FirstNearest(ditherJob.probe, i)

\* a sample at the same minimal distance of two entries that differ after
\* clamping: the earlier one was returned
C17_Witness ==
  /\ ditherJob.stage = "probed"
  /\ \E i, j \in DOMAIN ditherJob.probe.palette :
       /\ i < j
       /\ C17_FirstNearest(ditherJob.probe, i)
       /\ C17_Distance(ditherJob.probe.sample, ditherJob.probe.palette[i])
            = C17_Distance(ditherJob.probe.sample, ditherJob.probe.palette[j])
       /\ C17_Clamped(ditherJob.probe.palette[i]) # C17_Clamped(ditherJob.probe.palette[j])
       /\ ditherJob.probe.result = C17_Clamped(ditherJob.probe.palette[i])

(***************************************************************************)
(* C18 (DitherSpec).  A Floyd-Steinberg run with intensity 0 and a run of  *)
(* algorithm none on the same surface with the same palette, levels and    *)
(* mode give the same buffer, byte for byte.                               *)
(***************************************************************************)
C18_IsZeroFloydSteinberg(run) ==
  run.config.algorithm = "floyd-steinberg" /\ run.config.intensity = 0

C18_SameQuantizer(a, b) ==
  /\ a.config.palette = b.config.palette
  /\ a.config.levels = b.config.levels
  /\ a.config.mode = b.config.mode

C18_Pair(a, b) ==
  /\ C18_IsZeroFloydSteinberg(a)
  /\ b.config.algorithm = "none"
  /\ a.input = b.input
  /\ C18_SameQuantizer(a, b)

C18_ZeroIntensityIsDirect ==
  ditherJob.stage = "compared" =>
    /\ C18_Pair(ditherJob.first, ditherJob.second)
         => ditherJob.first.output = ditherJob.second.output
    /\ C18_Pair(ditherJob.second, ditherJob.first)
         => ditherJob.second.output = ditherJob.first.output

\* both runs were made on the 2 x 2 surface and changed it
C18_Witness ==
  /\ ditherJob.stage = "compared"
  /\ C18_Pair(ditherJob.first, ditherJob.second)
  /\ ditherJob.first.input.height = 2
  /\ ditherJob.first.output # ditherJob.first.input
  /\ ditherJob.first.output = ditherJob.second.output

(***************************************************************************)
(* C19 (DitherSpec).  Ordered Bayer is deterministic and local: of two     *)
(* runs with the same intensity, palette, levels and mode, on the same or  *)
(* on different surfaces, any two pixels that hold the same sample and lie *)
(* on the same matrix cell (y mod 8, x mod 8) get the same output, alpha   *)
(* is kept, and equal surfaces give equal buffers.                         *)
(***************************************************************************)
C19_IsBayer(run) == run.config.algorithm = "ordered-bayer-8x8"

C19_Pixels(run) == 0..(run.input.width * run.input.height - 1)

C19_Sample(image, p) == <<image.data[4 * p + 1], image.data[4 * p + 2], image.data[4 * p + 3]>>

C19_Cell(run, p) == <<(p \div run.input.width) % 8, (p % run.input.width) % 8>>

C19_SameAtSameCell(a, b) ==
  \A p \in C19_Pixels(a), r \in C19_Pixels(b) :
    (C19_Sample(a.input, p) = C19_Sample(b.input, r) /\ C19_Cell(a, p) = C19_Cell(b, r))
      => C19_Sample(a.output, p) = C19_Sample(b.output, r)

C19_BayerDeterministicAndLocal ==
  (/\ ditherJob.stage = "compared"
   /\ C19_IsBayer(ditherJob.first) /\ C19_IsBayer(ditherJob.second)
   /\ ditherJob.first.config = ditherJob.second.config)
    => /\ C19_SameAtSameCell(ditherJob.first, ditherJob.second)
       /\ C19_SameAtSameCell(ditherJob.first, ditherJob.first)
       /\ C19_SameAtSameCell(ditherJob.second, ditherJob.second)
       /\ \A p \in C19_Pixels(ditherJob.first) :
            ditherJob.first.output.data[4 * p + 4] = ditherJob.first.input.data[4 * p + 4]
       /\ ditherJob.first.input = ditherJob.second.input
            => ditherJob.first.output = ditherJob.second.output

\* two runs at full intensity on two different surfaces of nine pixels in a row
\* whose first and ninth pixels hold the same sample: the four outputs are equal,
\* and other pixels of the row holding the matrix's offsets came out differently
C19_Witness ==
  /\ ditherJob.stage = "compared"
  /\ C19_IsBayer(ditherJob.first) /\ C19_IsBayer(ditherJob.second)
  /\ ditherJob.first.config = ditherJob.second.config
  /\ ditherJob.first.config.intensity = 4
  /\ ditherJob.first.input.width = 9 /\ ditherJob.second.input.width = 9
  /\ ditherJob.first.input # ditherJob.second.input
  /\ C19_Sample(ditherJob.first.output, 0) = C19_Sample(ditherJob.second.output, 8)
  /\ ditherJob.first.output # ditherJob.second.output

(***************************************************************************)
(* C20 (WorkerSpec).  With brightness 0 and contrast 0 the tone adjustment *)
(* changes nothing on either path of the worker: the pixels of the         *)
(* PROCESS_COMPLETE are the pixels of the request, byte for byte.          *)
(***************************************************************************)
C20_ResponseData(payload) ==
  IF IsSome(payload.bitmap) THEN Val(payload.bitmap).data ELSE Val(payload.imageData).data

C20_Neutral(h) ==
  /\ IsSome(h.used)
  /\ Val(h.used).brightness = 0
  /\ Val(h.used).contrast = 0

C20_NeutralToneIsNoOp ==
  \A i \in 1..Len(outbox) :
    outbox[i].type = "PROCESS_COMPLETE" =>
      \A h \in handled :
        (h.id = outbox[i].id /\ C20_Neutral(h))
          => C20_ResponseData(outbox[i].payload) = Val(h.source)

\* a request answered on the OffscreenCanvas path and one answered on the
\* ImageData path, both with brightness 0 and contrast 0
C20_Witness ==
  \E i, j \in 1..Len(outbox) :
    /\ outbox[i].type = "PROCESS_COMPLETE" /\ IsSome(outbox[i].payload.bitmap)
    /\ outbox[j].type = "PROCESS_COMPLETE" /\ IsSome(outbox[j].payload.imageData)
    /\ \E h \in handled : h.id = outbox[i].id /\ C20_Neutral(h) /\ h.path = "offscreen"
    /\ \E h \in handled : h.id = outbox[j].id /\ C20_Neutral(h) /\ h.path = "imageData"

(***************************************************************************)
(* C25 (Spec).  PROCESS messages leave the hook in the order in which      *)
(* processImage was invoked: no call posts its message, and draws its id,  *)
(* after a call invoked later than it has already posted.                  *)
(***************************************************************************)
C25_PostedInInvocationOrder == overtakenPosts = {}

(***************************************************************************)
(* C28 (CallSpec).  Every PROCESS message of the hook carries exactly one  *)
(* of bitmap and imageData, and a bitmap only while the store's            *)
(* supportsOffscreen flag is true; a processImage call that returns null   *)
(* (no worker, a canvas without pixels, no 2d context) posts nothing,      *)
(* draws no id and transfers nothing.                                      *)
(***************************************************************************)
C28_OneSource(payload) == IsSome(payload.bitmap) # IsSome(payload.imageData)

C28_ProcessPayloads ==
  [](\A i \in 1..Len(inbox) :
       inbox[i].type = "PROCESS" =>
         /\ C28_OneSource(inbox[i].payload)
         /\ IsSome(inbox[i].payload.bitmap) => storeSupportsOffscreen = Some(TRUE))
  /\ [][ nullReturns' # nullReturns =>
           /\ inbox' = inbox
           /\ idRef' = idRef
           /\ lastProcessId' = lastProcessId
           /\ hookRefs' = hookRefs ]_vars

\* a PROCESS with imageData posted before READY arrived and one with a bitmap
\* posted after it are queued, after a call has returned null for want of a
\* 2d context and an odd number of calls have returned null
C28_Witness ==
  /\ \E i, j \in 1..Len(inbox) :
       /\ inbox[i].type = "PROCESS" /\ IsSome(inbox[i].payload.imageData)
       /\ inbox[j].type = "PROCESS" /\ IsSome(inbox[j].payload.bitmap)
       /\ i < j
  /\ CANNOT_READ_CANVAS \in errors
  /\ nullReturns = 1

(***************************************************************************)
(* C21 (ProbeSpec).  With contrast 0 and an integer brightness b the tone  *)
(* adjustment maps every R, G and B sample v to v + b cut to 0..255 and    *)
(* leaves the alpha sample as it is.                                       *)
(***************************************************************************)
C21_Cut(x) == IF x < 0 THEN 0 ELSE IF x > 255 THEN 255 ELSE x

C21_BrightnessShifts ==
  (probeJob.kind = "tone" /\ probeJob.settings.contrast = 0) =>
    /\ Len(probeJob.result) = Len(probeJob.data)
    /\ \A i \in 1..Len(probeJob.data) :
         probeJob.result[i] =
           IF i % 4 = 0 THEN probeJob.data[i]
           ELSE C21_Cut(probeJob.data[i] + probeJob.settings.brightness)

\* brightness 10 at contrast 0 on the pixel (250, 5, 214, 0): the first sample is
\* cut to 255, the others are moved by 10 and alpha is kept
C21_Witness ==
  /\ probeJob.kind = "tone"
  /\ probeJob.settings.contrast = 0
  /\ probeJob.settings.brightness = 10
  /\ probeJob.data = <<250, 5, 214, 0>>
  /\ probeJob.result = <<255, 15, 224, 0>>

(***************************************************************************)
(* C22 (ProbeSpec).  Without a palette the quantizer works with the        *)
(* requested levels brought into 2..256, and with 2 levels when none are   *)
(* requested; with 2 levels every channel it returns is 0 or 255 for every *)
(* input, in both modes; in grayscale mode the three channels are equal.   *)
(***************************************************************************)
C22_Levels(request) ==
  IF request = <<>> THEN 2
  ELSE IF request[1] < 2 THEN 2
  ELSE IF request[1] > 256 THEN 256
  ELSE request[1]

C22_LevelsBounded ==
  probeJob.kind = "levels" =>
    LET levels == C22_Levels(probeJob.options.levels)
        out == probeJob.result
    IN  /\ probeJob.quantizer.divisor = levels - 1
        /\ levels = 2 => \A c \in 1..3 : out[c] \in {0, 255}
        /\ probeJob.options.mode # Some("per-channel") => out[1] = out[2] /\ out[2] = out[3]
        /\ \A c \in 1..3 : out[c] \in 0..255

\* a request of 0 levels in per-channel mode on the sample (127.5, 383, -128):
\* the quantizer works with 2 levels and returns (255, 255, 0)
C22_Witness ==
  /\ probeJob.kind = "levels"
  /\ probeJob.options.levels = Some(0)
  /\ probeJob.options.mode = Some("per-channel")
  /\ probeJob.sample = <<(127 * FP) + (FP \div 2), 383 * FP, -128 * FP>>
  /\ probeJob.result = <<255, 255, 0>>

(***************************************************************************)
(* C23 (ProbeSpec).  For every algorithm key other than floyd-steinberg    *)
(* and ordered-bayer-8x8, applyDithering returns the surface quantized     *)
(* pixel by pixel with the quantizer of the configuration, and raises no   *)
(* error.                                                                  *)
(***************************************************************************)
C23_Direct(image, config) ==
  quantizeImageData(image, createQuantizer([palette |-> config.palette,
                                            levels |-> Some(config.levels),
                                            mode |-> config.mode]))

C23_UnknownKeyQuantizesDirectly ==
  (/\ probeJob.kind = "dither"
   /\ probeJob.config.algorithm \notin {"floyd-steinberg", "ordered-bayer-8x8"}) =>
    /\ DOMAIN probeJob.result = {"width", "height", "data"}
    /\ probeJob.result = C23_Direct(probeJob.image, probeJob.config)

\* the same, for the keys that are no keys of Object.prototype
C23_PlainUnknownKeyQuantizesDirectly ==
  (/\ probeJob.kind = "dither"
   /\ probeJob.config.algorithm \notin {"floyd-steinberg", "ordered-bayer-8x8"}
   /\ probeJob.config.algorithm \notin ObjectPrototypeKeys) =>
    /\ DOMAIN probeJob.result = {"width", "height", "data"}
    /\ probeJob.result = C23_Direct(probeJob.image, probeJob.config)

(***************************************************************************)
(* C24 (ScanSpec).  In a Floyd-Steinberg run every accumulator stays       *)
(* within [0, 255]; a pass over pixel (x, y) changes accumulators only of  *)
(* that pixel and of those of (x+1, y), (x-1, y+1), (x, y+1), (x+1, y+1)   *)
(* that lie inside the surface, never an alpha accumulator and never one   *)
(* of a pixel already written; it changes the output only at pixel (x, y), *)
(* so a written pixel is not changed again; the run returns what           *)
(* floydSteinbergDither returns.                                           *)
(***************************************************************************)
C24_Running == scanJob.stage \in {"scanning", "returned"}

\* the flat positions (1-based) of the R, G and B samples of pixel (x, y)
C24_Samples(x, y, width) ==
  {((y * width + x) * 4) + c : c \in 1..3}

\* the positions a pass over pixel p may add error to
C24_Targets(p, width, height) ==
  LET x == p % width
      y == p \div width
  IN  UNION {C24_Samples(n[1], n[2], width) :
               n \in {m \in {<<x + 1, y>>, <<x - 1, y + 1>>, <<x, y + 1>>, <<x + 1, y + 1>>} :
                        m[1] >= 0 /\ m[1] < width /\ m[2] >= 0 /\ m[2] < height}}

C24_Pass ==
  /\ scanJob.stage = "scanning"
  /\ scanJob'.stage \in {"scanning", "returned"}

C24_ErrorStaysInBounds ==
  /\ [](C24_Running =>
          /\ \A i \in DOMAIN scanJob.diffusedPixels :
               scanJob.diffusedPixels[i] >= 0 /\ scanJob.diffusedPixels[i] <= 255 * FP
          /\ scanJob.stage = "returned" =>
               scanJob.data =
                 floydSteinbergDither(scanJob.image,
                                      [intensity |-> scanJob.intensity,
                                       quantize |-> ScanQuantize(scanJob)]).data)
  /\ [][C24_Pass =>
          LET image == scanJob.image
              p == scanJob.p
              own == C24_Samples(p % image.width, p \div image.width, image.width)
              targets == C24_Targets(p, image.width, image.height)
          IN  /\ \A i \in DOMAIN scanJob.diffusedPixels :
                   scanJob'.diffusedPixels[i] # scanJob.diffusedPixels[i]
                     => i \in own \cup targets
              /\ \A i \in targets : i > (p + 1) * 4
              /\ \A i \in DOMAIN scanJob.data :
                   scanJob'.data[i] # scanJob.data[i] => i \in own
              /\ \A i \in own : scanJob'.diffusedPixels[i] = scanJob'.data[i] * FP ]_vars

\* the run on the surface of three columns and two rows at full intensity has
\* passed the last pixel of the first row; an accumulator of the second row was
\* driven to 255 and another one to 0, both from other values
C24_Witness ==
  /\ scanJob.stage = "scanning"
  /\ scanJob.image.width = 3 /\ scanJob.image.height = 2
  /\ scanJob.intensity = 4
  /\ scanJob.p = 3
  /\ \E i, j \in 13..24 :
       /\ i % 4 # 0 /\ scanJob.diffusedPixels[i] = 255 * FP /\ scanJob.image.data[i] < 255
       /\ j % 4 # 0 /\ scanJob.diffusedPixels[j] = 0 /\ scanJob.image.data[j] > 0

(***************************************************************************)
(* C26 (StageSpec).  isProcessing is true exactly while the decode that    *)
(* was started last (the one holding the current operation counter) has    *)
(* not settled; when no decode is in flight it is false.                   *)
(***************************************************************************)
C26_LatestInFlight == \E op \in decoding : op.operationId = operationIdRef

C26_ProcessingIffLatestInFlight ==
  /\ isProcessing = C26_LatestInFlight
  /\ decoding = {} => ~isProcessing

\* the second decode has settled while the first one is still in flight:
\* isProcessing is false
C26_Witness ==
  /\ operationIdRef = 2
  /\ IsSome(lastSettled) /\ Val(lastSettled).operationId = 2
  /\ \E op \in decoding : op.operationId = 1
  /\ ~isProcessing

(***************************************************************************)
(* C27 (StageSpec).  A handleFiles call that returns at validation sets an *)
(* error status and changes nothing else: not the operation counter, not   *)
(* imageState, not isProcessing, not the decodes in flight.  A decode that *)
(* holds the current counter when it settles after such a call commits:    *)
(* its image and the success status, or its error status, and              *)
(* isProcessing becomes false.                                             *)
(***************************************************************************)
C27_Verdicts == {"no-files", "unsupported", "too-large"}

C27_RejectedCall == lastCall' # lastCall /\ lastCall'.verdict \in C27_Verdicts

C27_SettlesAfterRejection(op) ==
  /\ decoding' = decoding \ {op}
  /\ op.operationId = operationIdRef
  /\ lastCall.verdict \in C27_Verdicts

C27_RejectionOnlySetsStatus ==
  [][ /\ C27_RejectedCall =>
           /\ operationIdRef' = operationIdRef
           /\ imageState' = imageState
           /\ isProcessing' = isProcessing
           /\ decoding' = decoding
           /\ status'.type = "error"
      /\ \A op \in decoding :
           C27_SettlesAfterRejection(op) =>
             /\ ~isProcessing'
             /\ \/ /\ imageState' = Some(DecodedImageState(op))
                   /\ status' = StatusSuccess(op.file, op.source)
                \/ /\ imageState' = imageState
                   /\ \E message \in DecodeErrors : status' = StatusDecodeError(message) ]_vars

\* a decode was started, a later call was rejected for the size of its file, and
\* the decode then committed its image and the success status
C27_Witness ==
  /\ lastCall.verdict = "too-large"
  /\ operationIdRef = 1
  /\ lastSettled = Some([operationId |-> 1, stale |-> FALSE])
  /\ IsSome(imageState) /\ Val(imageState).canvas = 1
  /\ status.type = "success"
  /\ ~isProcessing

(***************************************************************************)
(* C29 (WorkerSpec).  When the response to a PROCESS request has been      *)
(* posted, the ImageBitmap its payload carried has been closed: the worker *)
(* holds no open handle of it.                                             *)
(***************************************************************************)
C29_Answered(h) == ResponsesTo(h.id) # {}

C29_BitmapClosedBeforeResponse ==
  \A h \in handled :
    (IsSome(h.bitmapBuf) /\ C29_Answered(h)) => Val(h.bitmapBuf) \notin workerRefs

\* the same for the requests in which the payload's imageData was not used
C29_BitmapClosedUnlessImageDataUsed ==
  \A h \in handled :
    (IsSome(h.bitmapBuf) /\ C29_Answered(h) /\ h.path # "imageData")
      => Val(h.bitmapBuf) \notin workerRefs

(***************************************************************************)
(* C30 (ExifFairSpec).  getExifOrientation terminates on every buffer:     *)
(* a pass of the segment scan either leaves the loop or moves the offset   *)
(* forward by at least 2, the number of passes never exceeds half the      *)
(* length of the buffer, and a scan that has begun returns; the value      *)
(* returned is the one getExifOrientation gives.                           *)
(***************************************************************************)
C30_Scanning == probeJob.kind = "exif" /\ probeJob.stage = "scanning"

C30_Returned == probeJob.kind = "exif" /\ probeJob.stage = "returned"

C30_ScanTerminates ==
  /\ [](probeJob.kind = "exif" =>
          /\ 2 * probeJob.iterations <= Len(probeJob.buffer)
          /\ probeJob.stage = "returned" =>
               probeJob.value = getExifOrientation(probeJob.buffer).value)
  /\ [][(C30_Scanning /\ C30_Scanning') =>
          /\ probeJob'.offset >= probeJob.offset + 2
          /\ probeJob'.iterations = probeJob.iterations + 1 ]_vars
  /\ (C30_Scanning ~> C30_Returned)

\* a segment of declared length 0 was passed: the offset went from 2 to 4 and
\* the loop goes on
C30_Witness ==
  /\ C30_Scanning
  /\ probeJob.iterations = 1
  /\ Len(probeJob.buffer) = 6
  /\ SubSeq(probeJob.buffer, 3, 6) = <<255, 0, 0, 0>>
  /\ probeJob.offset = 4

=============================================================================
